---- MODULE Spec2Model ----
(***************************************************************************)
(* Model of the multi-provider aggregation engine of                       *)
(* src/enhanced-ip-geolocation.js (class EnhancedIPGeolocation) and of the *)
(* entry of EnhancedURLAnalyzer.analyzeURL (src/unnamed/part_000), with    *)
(* the redirect follower of the same class, the secure API endpoint        *)
(* (src/secure-api-endpoint.js), the blocklist checkers (src/unnamed/      *)
(* part_001, part_002) and the service worker (src/sw.js), each under a    *)
(* specification of its own in which the other programs stay idle.         *)
(*                                                                         *)
(* JavaScript runs one task at a time: an async function runs atomically   *)
(* from one await to the next.  Every action below is one such run.        *)
(* Strings the code inspects character by character (the query keys) are   *)
(* sequences of one-character strings.  A JavaScript object is a function  *)
(* from its property names; a property that is not there reads Undefined.  *)
(***************************************************************************)
EXTENDS Integers, Sequences, FiniteSets, TLC

\* ------------------------------------------------------------------ bounds
\* total number of getComprehensiveIPInfo / analyzeURL calls of a run
MaxCalls == 2
\* number of times the clock advances in a run
MaxTicks == 2
\* longest provider map given to the aggregation steps on their own
MaxProviders == 3

\* ------------------------------------------------------------- JS values
\* A JavaScript value is a tagged tuple, so that values of different types
\* can sit in the same property: undefined, null, NaN, a number (a rational
\* n/d in lowest terms), a string, a boolean, an array.
Undefined == <<"undefined">>
Null == <<"null">>
NaN == <<"nan">>
Str(s) == <<"str", s>>
Bool(b) == <<"bool", b>>
Arr(a) == <<"arr", a>>
Obj(o) == <<"obj", o>>

Abs(n) == IF n < 0 THEN -n ELSE n

RECURSIVE GCD(_, _)
GCD(a, b) == IF b = 0 THEN a ELSE GCD(b, a % b)

\* the number n/d, d > 0
Rat(n, d) ==
    LET g == GCD(Abs(n), d)
    IN  IF n = 0 THEN <<"num", 0, 1>> ELSE <<"num", n \div g, d \div g>>

Num(n) == Rat(n, 1)

IsNum(v) == v[1] = "num"

\* JavaScript truthiness, as used by `if (x)`, `a && b` and `a || b`
Truthy(v) ==
    CASE v[1] \in {"undefined", "null", "nan"} -> FALSE
      [] v[1] = "num" -> v[2] # 0
      [] v[1] = "str" -> v[2] # ""
      [] v[1] = "bool" -> v[2]
      [] OTHER -> TRUE

\* a || b
Or(a, b) == IF Truthy(a) THEN a ELSE b

\* {} : the object with no property
EmptyObject == [f \in {} |-> Undefined]

\* obj[f] for an object modelled as a function from its property names
Get(obj, f) == IF f \in DOMAIN obj THEN obj[f] ELSE Undefined

\* ------------------------------------------------------------ key syntax
Digits == {"0", "1", "2", "3", "4", "5", "6", "7", "8", "9"}
HexDigits == Digits \cup {"a", "b", "c", "d", "e", "f", "A", "B", "C", "D", "E", "F"}

\* s.split(sep) for a one-character separator
RECURSIVE Split(_, _)
Split(s, sep) ==
    IF \A i \in 1..Len(s) : s[i] # sep
    THEN <<s>>
    ELSE LET i == CHOOSE j \in 1..Len(s) :
                      s[j] = sep /\ \A k \in 1..(j - 1) : s[k] # sep
         IN  <<SubSeq(s, 1, i - 1)>> \o Split(SubSeq(s, i + 1, Len(s)), sep)

\* 25[0-5] | 2[0-4][0-9] | [01]?[0-9][0-9]?
OctetMatch(o) ==
    \/ Len(o) = 3 /\ o[1] = "2" /\ o[2] = "5" /\ o[3] \in {"0", "1", "2", "3", "4", "5"}
    \/ Len(o) = 3 /\ o[1] = "2" /\ o[2] \in {"0", "1", "2", "3", "4"} /\ o[3] \in Digits
    \/ Len(o) = 3 /\ o[1] \in {"0", "1"} /\ o[2] \in Digits /\ o[3] \in Digits
    \/ Len(o) = 2 /\ o[1] \in Digits /\ o[2] \in Digits
    \/ Len(o) = 1 /\ o[1] \in Digits

\* ^(?:octet\.){3}octet$
ipv4Regex(ip) ==
    LET parts == Split(ip, ".")
    IN  Len(parts) = 4 /\ \A i \in 1..4 : OctetMatch(parts[i])

\* [0-9a-fA-F]{1,4}
GroupMatch(g) == Len(g) \in 1..4 /\ \A i \in 1..Len(g) : g[i] \in HexDigits

\* ^(?:group:){7}group$
ipv6Regex(ip) ==
    LET parts == Split(ip, ":")
    IN  Len(parts) = 8 /\ \A i \in 1..8 : GroupMatch(parts[i])

\* a validator that looks at the shape of the key only: [0-9]{1,3} for every
\* octet, with no bound on its value
isValidIPShapeOnly(ip) ==
    LET parts == Split(ip, ".")
    IN  \/ /\ Len(parts) = 4
           /\ \A i \in 1..4 :
                 Len(parts[i]) \in 1..3 /\ \A j \in 1..Len(parts[i]) : parts[i][j] \in Digits
        \/ ipv6Regex(ip)

isValidIP(ip) == ipv4Regex(ip) \/ ipv6Regex(ip)

\* ------------------------------------------------- aggregation (pure code)
\* A providers object is the sequence of its entries in insertion order
\* (Object.values and Object.keys enumerate non-numeric property names in
\* insertion order): <<[provider |-> name, data |-> object], ...>>.

\* results.providers[name] = data
SetProvider(providers, name, data) ==
    IF \E i \in 1..Len(providers) : providers[i].provider = name
    THEN [i \in 1..Len(providers) |->
             IF providers[i].provider = name
             THEN [provider |-> name, data |-> data]
             ELSE providers[i]]
    ELSE Append(providers, [provider |-> name, data |-> data])

\* the values pushed by `if (provider.f) values.fs.push(provider.f)`
RECURSIVE Collect(_, _)
Collect(providers, f) ==
    IF providers = <<>>
    THEN <<>>
    ELSE LET v == Get(Head(providers).data, f)
         IN  (IF Truthy(v) THEN <<v>> ELSE <<>>) \o Collect(Tail(providers), f)

\* number of occurrences of item in array: counts[item]
RECURSIVE Count(_, _)
Count(array, item) ==
    IF array = <<>>
    THEN 0
    ELSE (IF Head(array) = item THEN 1 ELSE 0) + Count(Tail(array), item)

\* Object.keys(counts): the distinct items in order of first occurrence
\* (the property names the model uses are not integer-like)
RECURSIVE CountKeys(_)
CountKeys(array) ==
    IF array = <<>>
    THEN <<>>
    ELSE LET front == CountKeys(SubSeq(array, 1, Len(array) - 1))
             last == array[Len(array)]
         IN  IF \E i \in 1..Len(front) : front[i] = last
             THEN front
             ELSE Append(front, last)

\* (a, b) => counts[a] > counts[b] ? a : b
MostCommonStep(array, a, b) == IF Count(array, a) > Count(array, b) THEN a ELSE b

\* keys.reduce(step), no initial value
RECURSIVE ReduceKeys(_, _)
ReduceKeys(array, keys) ==
    IF Len(keys) = 1
    THEN keys[1]
    ELSE MostCommonStep(array, ReduceKeys(array, SubSeq(keys, 1, Len(keys) - 1)),
                        keys[Len(keys)])

getMostCommon(array) ==
    IF array = <<>> THEN Null ELSE ReduceKeys(array, CountKeys(array))

\* array.reduce((a, b) => a + b, 0) over numbers n/d
RECURSIVE SumRat(_)
SumRat(array) ==
    IF array = <<>>
    THEN Num(0)
    ELSE LET r == SumRat(Tail(array))
             h == Head(array)
         IN  Rat(h[2] * r[3] + r[2] * h[3], h[3] * r[3])

getAverage(array) ==
    IF array = <<>>
    THEN Null
    ELSE LET sum == SumRat(array) IN Rat(sum[2], sum[3] * Len(array))

aggregateProviderData(providers) ==
    [location |->
        [country |-> getMostCommon(Collect(providers, "country")),
         region |-> getMostCommon(Collect(providers, "region")),
         city |-> getMostCommon(Collect(providers, "city")),
         latitude |-> getAverage(Collect(providers, "latitude")),
         longitude |-> getAverage(Collect(providers, "longitude")),
         timezone |-> getMostCommon(Collect(providers, "timezone"))],
     network |->
        [isp |-> getMostCommon(Collect(providers, "isp")),
         org |-> getMostCommon(Collect(providers, "org")),
         asn |-> getMostCommon(Collect(providers, "asn"))],
     organization |-> EmptyObject,
     security |-> EmptyObject]

\* ------------------------------------------------------------- confidence
\* Scores are kept in hundredths: 0.25 is 25, 1.0 is 100, x * 0.8 is x * 80 / 100.
ConfidencePerProvider == 25
ConfidenceCap == 100
SecurityWeight == 80

Min(a, b) == IF a < b THEN a ELSE b

calculateConfidenceScores(providers) ==
    LET providerCount == Len(providers)
        overall == Min(providerCount * ConfidencePerProvider, ConfidenceCap)
    IN  IF providerCount = 0
        THEN [f \in {} |-> 0]
        ELSE [f \in {"overall", "location", "network", "security"} |->
                 IF f = "security" THEN (overall * SecurityWeight) \div 100 ELSE overall]

\* ------------------------------------------------- threats and services
ProxyThreat ==
    [type |-> "proxy", severity |-> "medium", source |-> "provider_detection",
     details |-> <<>>]

HostingThreat ==
    [type |-> "hosting", severity |-> "low", source |-> "provider_detection",
     details |-> <<>>]

VulnerabilityThreat(vulns) ==
    [type |-> "vulnerabilities", severity |-> "high", source |-> "shodan",
     details |-> vulns]

\* the threats one provider record contributes, in the order they are pushed
ProviderThreats(data) ==
    LET vulns == Get(data, "vulnerabilities")
    IN  (IF Truthy(Get(data, "isProxy")) THEN <<ProxyThreat>> ELSE <<>>)
        \o (IF Truthy(Get(data, "isHosting")) THEN <<HostingThreat>> ELSE <<>>)
        \o (IF vulns[1] = "arr" /\ Len(vulns[2]) > 0
            THEN <<VulnerabilityThreat(vulns[2])>>
            ELSE <<>>)

RECURSIVE analyzeThreatData(_)
analyzeThreatData(providers) ==
    IF providers = <<>>
    THEN <<>>
    ELSE ProviderThreats(Head(providers).data) \o analyzeThreatData(Tail(providers))

PortService(port) ==
    [port |-> port, protocol |-> "unknown", service |-> "unknown", source |-> "port_scan"]

\* a derivation that reports every port of a record once
ProviderServicesDistinctPorts(data) ==
    LET services == Get(data, "services")
        ports == Get(data, "ports")
    IN  (IF services[1] = "arr" THEN services[2] ELSE <<>>)
        \o (IF ports[1] = "arr"
            THEN [i \in 1..Len(CountKeys(ports[2])) |-> PortService(CountKeys(ports[2])[i])]
            ELSE <<>>)

\* the services one provider record contributes
ProviderServices(data) ==
    LET services == Get(data, "services")
        ports == Get(data, "ports")
    IN  (IF services[1] = "arr" THEN services[2] ELSE <<>>)
        \o (IF ports[1] = "arr"
            THEN [i \in 1..Len(ports[2]) |-> PortService(ports[2][i])]
            ELSE <<>>)

RECURSIVE extractServiceInfo(_)
extractServiceInfo(providers) ==
    IF providers = <<>>
    THEN <<>>
    ELSE ProviderServices(Head(providers).data) \o extractServiceInfo(Tail(providers))

\* --------------------------------------------------------------- adapters
\* What a provider answers to one fetch: the fetch rejects (network error),
\* or resolves to a response with response.ok, the text of
\* `HTTP ${status}: ${statusText}` and the parsed JSON body.
NetworkError == [rejects |-> TRUE, ok |-> FALSE, statusLine |-> "", body |-> EmptyObject]
HttpError(line) == [rejects |-> FALSE, ok |-> FALSE, statusLine |-> line, body |-> EmptyObject]
HttpOk(body) == [rejects |-> FALSE, ok |-> TRUE, statusLine |-> "HTTP 200: OK", body |-> body]

\* a settled promise, as Promise.allSettled reports it
Fulfilled(provider, data) ==
    [status |-> "fulfilled", provider |-> provider, data |-> data, message |-> ""]
Rejected(message) ==
    [status |-> "rejected", provider |-> "", data |-> EmptyObject, message |-> message]

\* the part every fetching adapter shares: fetch rejects, or !response.ok
FetchFailure(resp) ==
    IF resp.rejects THEN Rejected("Failed to fetch") ELSE Rejected(resp.statusLine)

fetchFromIPAPI(resp) ==
    LET data == resp.body
        message == Get(data, "message")
    IN  IF resp.rejects \/ ~resp.ok
        THEN FetchFailure(resp)
        ELSE IF Get(data, "status") = Str("fail")
        THEN Rejected(IF Truthy(message) THEN message[2] ELSE "IP-API request failed")
        ELSE Fulfilled("ipapi",
                 [country |-> Get(data, "country"),
                  countryCode |-> Get(data, "countryCode"),
                  region |-> Get(data, "regionName"),
                  city |-> Get(data, "city"),
                  postal |-> Get(data, "zip"),
                  latitude |-> Get(data, "lat"),
                  longitude |-> Get(data, "lon"),
                  timezone |-> Get(data, "timezone"),
                  isp |-> Get(data, "isp"),
                  org |-> Get(data, "org"),
                  asn |-> Get(data, "as"),
                  isMobile |-> Get(data, "mobile"),
                  isProxy |-> Get(data, "proxy"),
                  isHosting |-> Get(data, "hosting"),
                  accuracy |-> Str("medium")])

\* (data.loc || '0,0').split(',').map(Number): the string "lat,lon" is
\* <<"loc", lat, lon>>
ParseLoc(loc) == IF Truthy(loc) THEN <<Num(loc[2]), Num(loc[3])>> ELSE <<Num(0), Num(0)>>

fetchFromIPInfo(resp) ==
    LET data == resp.body
        latlon == ParseLoc(Get(data, "loc"))
        asn == Get(data, "asn")
        asnField(f) == IF Truthy(asn) THEN Get(asn[2], f) ELSE Null
    IN  IF resp.rejects \/ ~resp.ok
        THEN FetchFailure(resp)
        ELSE Fulfilled("ipinfo",
                 [country |-> Get(data, "country"),
                  region |-> Get(data, "region"),
                  city |-> Get(data, "city"),
                  postal |-> Get(data, "postal"),
                  latitude |-> latlon[1],
                  longitude |-> latlon[2],
                  timezone |-> Get(data, "timezone"),
                  org |-> Get(data, "org"),
                  hostname |-> Get(data, "hostname"),
                  asn |-> asnField("asn"),
                  asnName |-> asnField("name"),
                  asnDomain |-> asnField("domain"),
                  accuracy |-> Str("high")])

\* data.data.map(service => ({port, protocol, service, version, banner}))
ShodanService(service) ==
    [port |-> Get(service, "port"),
     protocol |-> Get(service, "transport"),
     service |-> Get(service, "product"),
     version |-> Get(service, "version"),
     banner |-> Get(service, "data")]

fetchFromShodan(resp) ==
    LET data == resp.body
        banners == Get(data, "data")
    IN  IF resp.rejects \/ ~resp.ok
        THEN FetchFailure(resp)
        ELSE Fulfilled("shodan",
                 [country |-> Get(data, "country_name"),
                  countryCode |-> Get(data, "country_code"),
                  region |-> Get(data, "region_code"),
                  city |-> Get(data, "city"),
                  latitude |-> Get(data, "latitude"),
                  longitude |-> Get(data, "longitude"),
                  org |-> Get(data, "org"),
                  isp |-> Get(data, "isp"),
                  asn |-> Get(data, "asn"),
                  hostnames |-> Or(Get(data, "hostnames"), Arr(<<>>)),
                  domains |-> Or(Get(data, "domains"), Arr(<<>>)),
                  ports |-> Or(Get(data, "ports"), Arr(<<>>)),
                  services |-> IF Truthy(banners)
                               THEN Arr([i \in 1..Len(banners[2]) |->
                                            ShodanService(banners[2][i])])
                               ELSE Arr(<<>>),
                  vulnerabilities |-> Or(Get(data, "vulns"), Arr(<<>>)),
                  lastSeen |-> Get(data, "last_update"),
                  accuracy |-> Str("high")])

fetchThreatIntelligence ==
    Fulfilled("threat_intel",
        [threatScore |-> Num(0),
         categories |-> Arr(<<>>),
         malwareDetections |-> Arr(<<>>),
         reputation |-> Str("unknown"),
         lastSeen |-> Null,
         sources |-> Arr(<<>>)])

\* ------------------------------------------------------------------ state
cacheExpiry == 24 * 60 * 60 * 1000
maxHistorySize == 100

VARIABLES
    cache,           \* this.cache: key -> [timestamp, data]
    requestHistory,  \* this.requestHistory, newest first
    env,             \* the names of process.env that are set
    now,             \* Date.now()
    calls,           \* the getComprehensiveIPInfo calls in flight, by slot
    ret,             \* how the call that completed last ended
    labelled,        \* <<index, adapter>> for every errors entry written so far
    urlCache,        \* EnhancedURLAnalyzer's this.cache: url -> [timestamp, data]
    urlCall,         \* the analyzeURL call in flight
    urlRet,          \* how the analyzeURL call that completed last ended
    started,         \* number of calls made
    ticks,           \* number of clock advances
    pureIn,          \* a providers object given to the derivation steps alone
    pureCut,         \* length of the prefix of pureIn scored for comparison
    pureOut          \* what the derivation steps made of pureIn

\* followEnhancedRedirectChain (src/unnamed/part_000)
VARIABLES
    graph,           \* what the web answers: page -> response
    followPc,        \* where the call stands: "idle", "fetching", "done"
    startUrl,        \* the argument of the call
    chain,           \* the local chain
    currentUrl,      \* the local currentUrl
    redirectCount,   \* the local redirectCount
    requests,        \* number of fetch calls issued by the call
    followRet        \* the object the call returned

redirectVars ==
    <<graph, followPc, startUrl, chain, currentUrl, redirectCount, requests, followRet>>

\* SecureApiEndpoint (src/secure-api-endpoint.js)
VARIABLES
    apiEnv,          \* the names of the server's process.env that are set
    hits,            \* the rate limiter's count of the client in the current window
    req,             \* the request handled last
    res              \* the response to it, with the middleware and handlers that ran

apiVars == <<apiEnv, hits, req, res>>

\* IPBlacklistChecker (src/unnamed/part_002) and IPBanTester (src/unnamed/part_001)
VARIABLES
    tool,            \* the class the page constructed
    feed,            \* the blocklists the loader is fetching: list name -> entries
    loadPc,          \* where init stands: "detecting", "loading", "ready"
    blocklists,      \* this.blocklists
    listening,       \* the click and key listeners are registered
    disabled,        \* checkBtn.disabled and ipInput.disabled
    messageShown,         \* the message shown last
    inFlight,        \* the results of the checkIP calls awaiting getIPInfo
    resultsShown          \* the results displayed

checkerVars ==
    <<tool, feed, loadPc, blocklists, listening, disabled, messageShown, inFlight, resultsShown>>

\* the service worker (src/sw.js)
VARIABLES
    registration,    \* the worker's state: "parsed", "installed", "activated"
    installLog,      \* what the install handler logged: "", "ok", "failed"
    caches,          \* the origin's CacheStorage: cache name -> (URL -> response)
    deleted,         \* the caches the activate handler logged as deleted
    fetchEvent,      \* the request of the fetch event handled last
    responded        \* what the page got for it

swVars == <<registration, installLog, caches, deleted, fetchEvent, responded>>

\* the state of the programs other than the two analysis services
toolVars == <<redirectVars, apiVars, checkerVars, swVars>>

vars ==
    <<cache, requestHistory, env, now, calls, ret, labelled, urlCache, urlCall, urlRet,
      started, ticks, pureIn, pureCut, pureOut, toolVars>>

ipVars == <<cache, requestHistory, calls, ret, labelled>>
urlVars == <<urlCache, urlCall, urlRet>>
pureVars == <<pureIn, pureCut, pureOut>>

\* "8.8.8.8"
KeyIPv4 == <<"8", ".", "8", ".", "8", ".", "8">>
\* "2001:db8:0:0:0:0:0:1"
KeyIPv6 ==
    <<"2", "0", "0", "1", ":", "d", "b", "8", ":", "0", ":", "0", ":", "0", ":",
      "0", ":", "0", ":", "1">>
\* "999.999.1.1"
KeyBadOctet == <<"9", "9", "9", ".", "9", "9", "9", ".", "1", ".", "1">>
\* "::1"
KeyShortIPv6 == <<":", ":", "1">>

\* "256.1.1.1"
KeyOctet256 == <<"2", "5", "6", ".", "1", ".", "1", ".", "1">>

IPKeys == {KeyIPv4, KeyIPv6, KeyBadOctet, KeyShortIPv6, KeyOctet256}

\* options as the code reads them: includeBasic is `options.includeBasic !== false`,
\* the others are the truthiness of the option
Options ==
    [forceRefresh : BOOLEAN, includeBasic : BOOLEAN, includeDetailed : BOOLEAN,
     includeThreatIntel : BOOLEAN]

\* the variables of process.env the adapters read
EnvNames == {"IPINFO_TOKEN", "IPGEOLOCATION_TOKEN", "SHODAN_TOKEN"}

\* the environments of the model: every variable is set in one and unset in
\* another
Environments ==
    {{}, {"SHODAN_TOKEN"}, {"IPINFO_TOKEN", "IPGEOLOCATION_TOKEN"}, EnvNames}

Slots == 1..MaxCalls

\* what the providers may answer
IPAPIBody ==
    [status |-> Str("success"), country |-> Str("France"), countryCode |-> Str("FR"),
     regionName |-> Str("IDF"), city |-> Str("Paris"), zip |-> Str("75001"),
     lat |-> Num(48), lon |-> Num(2), timezone |-> Str("Europe/Paris"),
     isp |-> Str("Orange"), org |-> Str("Orange"), as |-> Str("AS3215 Orange"),
     query |-> Str("8.8.8.8"), mobile |-> Bool(FALSE), proxy |-> Bool(TRUE),
     hosting |-> Bool(FALSE)]

IPAPIFailBody == [status |-> Str("fail"), message |-> Str("reserved range")]

IPInfoBody ==
    [country |-> Str("FR"), region |-> Str("IDF"), city |-> Str("Paris"),
     postal |-> Str("75001"), loc |-> <<"loc", 50, 4>>, timezone |-> Str("Europe/Paris"),
     org |-> Str("AS3215 Orange"), hostname |-> Str("host.example")]

ShodanBody ==
    [country_name |-> Str("France"), country_code |-> Str("FR"), city |-> Str("Lyon"),
     latitude |-> Num(46), longitude |-> Num(5), org |-> Str("Orange"),
     isp |-> Str("Orange"), asn |-> Str("AS3215"), ports |-> Arr(<<Num(80), Num(80)>>),
     vulns |-> Arr(<<Str("CVE-2020-0001")>>)]

Responses(adapter) ==
    CASE adapter = "ipapi" -> {HttpOk(IPAPIBody), HttpOk(IPAPIFailBody)}
      [] adapter = "ipinfo" -> {HttpOk(IPInfoBody), NetworkError}
      [] adapter = "shodan" -> {HttpOk(ShodanBody), HttpError("HTTP 404: Not Found")}

\* the adapter's code after its fetch has answered
AdapterResult(adapter, resp) ==
    CASE adapter = "ipapi" -> fetchFromIPAPI(resp)
      [] adapter = "ipinfo" -> fetchFromIPInfo(resp)
      [] adapter = "shodan" -> fetchFromShodan(resp)

\* a promise in providerPromises: result is <<>> while pending, <<settled>> after
Pending(adapter) == [adapter |-> adapter, result |-> <<>>]
Settled(adapter, result) == [adapter |-> adapter, result |-> <<result>>]

\* the adapter's code up to its first await: fetchFromShodan and
\* fetchFromIPGeolocation reject at once when their token is not set, the
\* placeholder fulfils at once, the others issue their fetch (fetchFromIPInfo
\* with process.env.IPINFO_TOKEN || 'demo')
StartAdapter(adapter, e) ==
    CASE adapter = "shodan" /\ "SHODAN_TOKEN" \notin e ->
             Settled(adapter, Rejected("Shodan API token not configured"))
      [] adapter = "ipgeolocation" /\ "IPGEOLOCATION_TOKEN" \notin e ->
             Settled(adapter, Rejected("IPGeolocation.io API token not configured"))
      [] adapter = "threat_intel" -> Settled(adapter, fetchThreatIntelligence)
      [] OTHER -> Pending(adapter)

\* the adapters whose function the call invokes, in the order of the pushes;
\* this.fetchFromMaxMind is not defined, so the push after ipgeolocation throws
BasicAdapters(options) == IF options.includeBasic THEN <<"ipapi", "ipinfo">> ELSE <<>>
DetailedAdapters(options) == IF options.includeDetailed THEN <<"ipgeolocation">> ELSE <<>>
ThreatAdapters(options) ==
    IF options.includeThreatIntel THEN <<"shodan", "threat_intel">> ELSE <<>>

DispatchThrows(options) == options.includeDetailed

Invoked(options) ==
    IF DispatchThrows(options)
    THEN BasicAdapters(options) \o DetailedAdapters(options)
    ELSE BasicAdapters(options) \o ThreatAdapters(options)

\* the adapters among them that issued a network request
Fetched(options, e) ==
    {a \in {Invoked(options)[i] : i \in 1..Len(Invoked(options))} :
        StartAdapter(a, e).result = <<>>}

\* ------------------------------------------------------------------ cache
\* a cache whose age is compared with the lifetime taken in seconds
getFromCacheSeconds(c, t, ip) ==
    IF ip \in DOMAIN c /\ t - c[ip].timestamp < cacheExpiry \div 1000
    THEN <<c[ip].data>>
    ELSE <<>>

\* getFromCache: <<data>> for a fresh entry, <<>> for null
getFromCache(c, t, ip) ==
    IF ip \in DOMAIN c /\ t - c[ip].timestamp < cacheExpiry
    THEN <<c[ip].data>>
    ELSE <<>>

\* a write that keeps an entry which is still fresh: the first store wins
cacheResultsKeepFirst(c, t, ip, data) ==
    IF ip \in DOMAIN c /\ t - c[ip].timestamp < cacheExpiry
    THEN c
    ELSE [k \in DOMAIN c \cup {ip} |->
             IF k = ip THEN [timestamp |-> t, data |-> data] ELSE c[k]]

\* a write that updates the envelope of an existing entry in place, keeping
\* the timestamp field the envelope was built with
cacheResultsInPlace(c, t, ip, data) ==
    [k \in DOMAIN c \cup {ip} |->
        IF k = ip
        THEN [timestamp |-> t,
              data |-> IF ip \in DOMAIN c
                       THEN [data EXCEPT !.timestamp = c[ip].data.timestamp]
                       ELSE data]
        ELSE c[k]]

\* a write that also removes the entries which have expired
cacheResultsEvicting(c, t, ip, data) ==
    [k \in {j \in DOMAIN c : t - c[j].timestamp < cacheExpiry} \cup {ip} |->
        IF k = ip THEN [timestamp |-> t, data |-> data] ELSE c[k]]

\* a write that stores an envelope only when a provider answered
cacheResultsSuccessOnly(c, t, ip, data) ==
    IF data.providers = <<>>
    THEN c
    ELSE [k \in DOMAIN c \cup {ip} |->
             IF k = ip THEN [timestamp |-> t, data |-> data] ELSE c[k]]

\* cacheResults: this.cache.set(ip, {timestamp: Date.now(), data})
cacheResults(c, t, ip, data) ==
    [k \in DOMAIN c \cup {ip} |->
        IF k = ip THEN [timestamp |-> t, data |-> data] ELSE c[k]]

\* addToHistory: unshift, then keep the first maxHistorySize
addToHistory(h, t, ip, results) ==
    LET entry == [ip |-> ip, timestamp |-> t,
                  providers |-> [i \in 1..Len(results.providers) |->
                                    results.providers[i].provider],
                  success |-> TRUE]
        grown == <<entry>> \o h
    IN  IF Len(grown) > maxHistorySize THEN SubSeq(grown, 1, maxHistorySize) ELSE grown

\* ------------------------------------------------- getComprehensiveIPInfo
\* `provider_${index}`
ProviderLabel(index) == <<"provider_", index>>

\* Promise.all in place of Promise.allSettled: one rejection and no record
\* is kept
CollectProvidersFailFast(promises) ==
    IF \E i \in 1..Len(promises) : promises[i].result[1].status = "rejected"
    THEN <<>>
    ELSE [i \in 1..Len(promises) |->
             [provider |-> promises[i].result[1].provider,
              data |-> promises[i].result[1].data]]

\* the forEach over providerResults: results.providers
RECURSIVE CollectProviders(_)
CollectProviders(promises) ==
    IF promises = <<>>
    THEN <<>>
    ELSE LET front == CollectProviders(SubSeq(promises, 1, Len(promises) - 1))
             r == promises[Len(promises)].result[1]
         IN  IF r.status = "fulfilled"
             THEN SetProvider(front, r.provider, r.data)
             ELSE front

\* the forEach over providerResults: results.errors
RECURSIVE CollectErrors(_)
CollectErrors(promises) ==
    IF promises = <<>>
    THEN <<>>
    ELSE LET front == CollectErrors(SubSeq(promises, 1, Len(promises) - 1))
             r == promises[Len(promises)].result[1]
         IN  IF r.status = "rejected"
             THEN Append(front, [provider |-> ProviderLabel(Len(promises) - 1),
                                 error |-> r.message])
             ELSE front

\* the results object once every promise has settled
BuildResults(ip, timestamp, promises) ==
    LET providers == CollectProviders(promises)
    IN  [ip |-> ip,
         timestamp |-> timestamp,
         providers |-> providers,
         aggregated |-> aggregateProviderData(providers),
         confidence |-> calculateConfidenceScores(providers),
         threats |-> analyzeThreatData(providers),
         services |-> extractServiceInfo(providers),
         errors |-> CollectErrors(promises)]

IdleCall == [pc |-> "idle", ip |-> <<>>, timestamp |-> 0, promises |-> <<>>]

\* how a call ended, as its caller sees it: the envelope returned or the
\* error thrown, when, and what the call did on the way (the adapters it
\* invoked, those that issued a network request, its settled promises)
NoReturn ==
    [kind |-> "none", ip |-> <<>>, at |-> 0, envelope |-> <<>>, message |-> "",
     hit |-> FALSE, invoked |-> <<>>, fetched |-> {}, promises |-> <<>>]

\* the call returned `cached`
ReturnedCached(ip, t, envelope) ==
    [kind |-> "envelope", ip |-> ip, at |-> t, envelope |-> <<envelope>>, message |-> "",
     hit |-> TRUE, invoked |-> <<>>, fetched |-> {}, promises |-> <<>>]

\* the call returned `results`
ReturnedResults(ip, t, envelope, promises, fetched) ==
    [kind |-> "envelope", ip |-> ip, at |-> t, envelope |-> <<envelope>>, message |-> "",
     hit |-> FALSE,
     invoked |-> [i \in 1..Len(promises) |-> promises[i].adapter],
     fetched |-> fetched, promises |-> promises]

\* the call threw new Error(`Failed to get IP information: ${error.message}`)
Threw(ip, t, message, invoked, fetched) ==
    [kind |-> "throw", ip |-> ip, at |-> t, envelope |-> <<>>, message |-> message,
     hit |-> FALSE, invoked |-> invoked, fetched |-> fetched, promises |-> <<>>]

InvalidIPMessage == "Failed to get IP information: Invalid IP address format"
NoMaxMindMessage ==
    "Failed to get IP information: this.fetchFromMaxMind is not a function"

\* a cache check that also compares the entry with the selection of the call:
\* an entry built from another number of adapters is passed over
MissesCacheSelection(c, t, ip, options) ==
    \/ getFromCache(c, t, ip) = <<>>
    \/ options.forceRefresh
    \/ Len(getFromCache(c, t, ip)[1].providers) + Len(getFromCache(c, t, ip)[1].errors)
           # Len(Invoked(options))

\* `cached && !options.forceRefresh` is false: the call goes on to the providers
MissesCache(c, t, ip, options) == getFromCache(c, t, ip) = <<>> \/ options.forceRefresh

\* The call up to `await Promise.allSettled(...)`: validation, the cache
\* check, and the start of every selected adapter.  The call takes slot s.
getComprehensiveIPInfo(s, ip, options) ==
    /\ calls[s].pc = "idle"
    /\ UNCHANGED <<cache, requestHistory, env, now, labelled, ticks>>
    /\ UNCHANGED toolVars
    /\ IF ~isValidIP(ip)
       THEN /\ ret' = Threw(ip, now, InvalidIPMessage, <<>>, {})
            /\ UNCHANGED calls
       ELSE IF ~MissesCache(cache, now, ip, options)
       THEN /\ ret' = ReturnedCached(ip, now, getFromCache(cache, now, ip)[1])
            /\ UNCHANGED calls
       ELSE IF DispatchThrows(options)
       THEN /\ ret' = Threw(ip, now, NoMaxMindMessage, Invoked(options),
                            Fetched(options, env))
            /\ UNCHANGED calls
       ELSE /\ calls' = [calls EXCEPT ![s] =
                            [pc |-> "awaiting", ip |-> ip, timestamp |-> now,
                             promises |-> [i \in 1..Len(Invoked(options)) |->
                                              StartAdapter(Invoked(options)[i], env)]]]
            /\ UNCHANGED ret

\* A provider answers the fetch of the i-th adapter of the call in slot s, and
\* the adapter runs to its return or throw.
AdapterSettles(s, i) ==
    /\ calls[s].pc = "awaiting"
    /\ i \in 1..Len(calls[s].promises)
    /\ calls[s].promises[i].result = <<>>
    /\ \E resp \in Responses(calls[s].promises[i].adapter) :
          calls' = [calls EXCEPT ![s].promises[i] =
                       Settled(@.adapter, AdapterResult(@.adapter, resp))]
    /\ UNCHANGED <<cache, requestHistory, env, now, ret, labelled, started, ticks>>
    /\ UNCHANGED toolVars
    /\ UNCHANGED urlVars

AllSettled(promises) == \A i \in 1..Len(promises) : promises[i].result # <<>>

\* the adapters of the call that issued a network request: those that did not
\* settle in StartAdapter
FetchedBy(promises, e) ==
    {promises[i].adapter : i \in {j \in 1..Len(promises) :
        StartAdapter(promises[j].adapter, e).result = <<>>}}

\* The call from the resolution of Promise.allSettled to its return.
Resume(s) ==
    /\ calls[s].pc = "awaiting"
    /\ AllSettled(calls[s].promises)
    /\ LET c == calls[s]
           results == BuildResults(c.ip, c.timestamp, c.promises)
       IN  /\ cache' = cacheResults(cache, now, c.ip, results)
           /\ requestHistory' = addToHistory(requestHistory, now, c.ip, results)
           /\ ret' = ReturnedResults(c.ip, now, results, c.promises,
                                   FetchedBy(c.promises, env))
           /\ labelled' = labelled \cup
                  {<<i - 1, c.promises[i].adapter>> : i \in
                      {j \in 1..Len(c.promises) : c.promises[j].result[1].status = "rejected"}}
    /\ calls' = [calls EXCEPT ![s] = IdleCall]
    /\ UNCHANGED <<env, now, started, ticks>>
    /\ UNCHANGED toolVars
    /\ UNCHANGED urlVars

\* half a cache lifetime passes
TickStep == cacheExpiry \div 2

Tick ==
    /\ ticks < MaxTicks
    /\ ticks' = ticks + 1
    /\ now' = now + TickStep
    /\ UNCHANGED <<cache, requestHistory, env, calls, ret, labelled, started>>
    /\ UNCHANGED toolVars
    /\ UNCHANGED urlVars

\* ------------------------------------------------------------ analyzeURL
\* "https://a.io"
UrlHttps == <<"h", "t", "t", "p", "s", ":", "/", "/", "a", ".", "i", "o">>
\* "not a url"
UrlNotAUrl == <<"n", "o", "t", " ", "a", " ", "u", "r", "l">>
\* "a.io"
UrlNoScheme == <<"a", ".", "i", "o">>
\* "http://"
UrlNoHost == <<"h", "t", "t", "p", ":", "/", "/">>

URLKeys == {UrlHttps, UrlNotAUrl, UrlNoScheme, UrlNoHost}

Letters == {"a", "b", "c", "d", "e", "f", "g", "h", "i", "j", "k", "l", "m", "n", "o",
            "p", "q", "r", "s", "t", "u", "v", "w", "x", "y", "z"}

SpecialSchemes ==
    {<<"h", "t", "t", "p">>, <<"h", "t", "t", "p", "s">>, <<"f", "t", "p">>,
     <<"w", "s">>, <<"w", "s", "s">>}

\* s without its leading "/" characters
RECURSIVE SkipSlashes(_)
SkipSlashes(s) == IF s # <<>> /\ Head(s) = "/" THEN SkipSlashes(Tail(s)) ELSE s

\* new URL(url) does not throw.  The platform's parser, with no base URL,
\* for the keys of the model: the string must start with a scheme (a letter,
\* then letters, digits, "+", "-", "."), followed by ":", and after a special
\* scheme and its slashes a host must follow, without a space.
isValidURL(url) ==
    /\ \E i \in 1..Len(url) : url[i] = ":"
    /\ LET parts == Split(url, ":")
           scheme == parts[1]
           rest == SkipSlashes(SubSeq(url, Len(scheme) + 2, Len(url)))
       IN  /\ scheme # <<>>
           /\ scheme[1] \in Letters
           /\ \A i \in 1..Len(scheme) : scheme[i] \in Letters \cup Digits \cup {"+", "-", "."}
           /\ scheme \in SpecialSchemes =>
                 rest # <<>> /\ \A i \in 1..Len(rest) : rest[i] # " "

urlCacheExpiry == 60 * 60 * 1000

\* EnhancedURLAnalyzer.getFromCache: <<data>> for a fresh entry, <<>> for null
urlGetFromCache(c, t, url) ==
    IF url \in DOMAIN c /\ t - c[url].timestamp < urlCacheExpiry
    THEN <<c[url].data>>
    ELSE <<>>

\* EnhancedURLAnalyzer.cacheResults
urlCacheResults(c, t, url, data) ==
    [k \in DOMAIN c \cup {url} |->
        IF k = url THEN [timestamp |-> t, data |-> data] ELSE c[k]]

NoUrlCall == [pc |-> "idle", url |-> <<>>, timestamp |-> 0]

\* how an analyzeURL call ended: the analysis returned or the error thrown;
\* fetched tells whether the call issued a network request
NoUrlReturn ==
    [kind |-> "none", url |-> <<>>, analysis |-> <<>>, message |-> "", hit |-> FALSE,
     fetched |-> FALSE]

InvalidURLMessage == "URL analysis failed: Invalid URL format"

\* where the redirect chain of the model's URLs ends: at the URL itself when
\* it does not redirect (or its fetch fails), else at "https://a.io/"
RedirectTarget == UrlHttps \o <<"/">>

\* analyzeURL up to its first await: validation and the cache check.
analyzeURL(url, forceRefresh) ==
    /\ urlCall.pc = "idle"
    /\ UNCHANGED <<urlCache, env, now, ticks>>
    /\ UNCHANGED toolVars
    /\ UNCHANGED ipVars
    /\ IF ~isValidURL(url)
       THEN /\ urlRet' = [kind |-> "throw", url |-> url, analysis |-> <<>>,
                          message |-> InvalidURLMessage, hit |-> FALSE, fetched |-> FALSE]
            /\ UNCHANGED urlCall
       ELSE IF urlGetFromCache(urlCache, now, url) # <<>> /\ ~forceRefresh
       THEN /\ urlRet' = [kind |-> "analysis", url |-> url,
                          analysis |-> urlGetFromCache(urlCache, now, url),
                          message |-> "", hit |-> TRUE, fetched |-> FALSE]
            /\ UNCHANGED urlCall
       ELSE /\ urlCall' = [pc |-> "analyzing", url |-> url, timestamp |-> now]
            /\ UNCHANGED urlRet

\* analyzeURL from its first await to its return: the domain, redirect,
\* security, metadata, certificate, performance and WHOIS steps each catch their
\* own errors, so the call always reaches cacheResults and returns.  Of the
\* analysis the model keeps the key, the timestamp and where the redirect
\* chain ended.
AnalysisCompletes(redirects) ==
    /\ urlCall.pc = "analyzing"
    /\ LET analysis == [originalUrl |-> urlCall.url,
                        timestamp |-> urlCall.timestamp,
                        finalUrl |-> IF redirects = 0 THEN urlCall.url ELSE RedirectTarget,
                        totalRedirects |-> redirects]
       IN  /\ urlCache' = urlCacheResults(urlCache, now, urlCall.url, analysis)
           /\ urlRet' = [kind |-> "analysis", url |-> urlCall.url, analysis |-> <<analysis>>,
                         message |-> "", hit |-> FALSE, fetched |-> TRUE]
    /\ urlCall' = NoUrlCall
    /\ UNCHANGED <<env, now, started, ticks>>
    /\ UNCHANGED toolVars
    /\ UNCHANGED ipVars

NoCallInFlight == urlCall.pc = "idle" /\ \A s \in Slots : calls[s].pc = "idle"

\* the caller, which awaits each call before it makes the next, makes the
\* next call of the run
Call(ip, options) ==
    /\ started < MaxCalls
    /\ NoCallInFlight
    /\ started' = started + 1
    /\ getComprehensiveIPInfo(started + 1, ip, options)
    /\ UNCHANGED urlVars

CallURL(url, forceRefresh) ==
    /\ started < MaxCalls
    /\ NoCallInFlight
    /\ started' = started + 1
    /\ analyzeURL(url, forceRefresh)

NoOutput ==
    [done |-> FALSE, aggregated |-> aggregateProviderData(<<>>),
     confidence |-> calculateConfidenceScores(<<>>),
     prefixConfidence |-> calculateConfidenceScores(<<>>),
     threats |-> <<>>, services |-> <<>>]

\* ------------------------------------------- the derivation steps alone
\* The steps of getComprehensiveIPInfo between the forEach and the cache
\* store (aggregation, confidence, threats, services), applied to a providers
\* object drawn from a bounded set, and the confidence of a prefix of it.
Derive ==
    /\ ~pureOut.done
    /\ pureOut' =
          [done |-> TRUE,
           aggregated |-> aggregateProviderData(pureIn),
           confidence |-> calculateConfidenceScores(pureIn),
           prefixConfidence |-> calculateConfidenceScores(SubSeq(pureIn, 1, pureCut)),
           threats |-> analyzeThreatData(pureIn),
           services |-> extractServiceInfo(pureIn)]
    /\ UNCHANGED <<pureIn, pureCut>>
    /\ UNCHANGED <<env, now, started, ticks>>
    /\ UNCHANGED toolVars
    /\ UNCHANGED ipVars
    /\ UNCHANGED urlVars

\* the property names of the providers object, in the order of the pushes
AdapterRoster == <<"ipapi", "ipinfo", "ipgeolocation", "maxmind", "shodan", "threat_intel">>

\* provider records that differ in a categorical and in a numeric field
AggregationData ==
    {[city |-> city, latitude |-> latitude] :
        city \in {Undefined, Str("Paris"), Str("Berlin")},
        latitude \in {Undefined, Num(0), Num(10)}}

\* a located record and the placeholder record of fetchThreatIntelligence
ScoringData == {[city |-> Str("Paris"), latitude |-> Num(10)], fetchThreatIntelligence.data}

\* the providers objects of at most n records over the given data
ProviderMaps(data, n) ==
    UNION {{[i \in 1..k |-> [provider |-> AdapterRoster[i], data |-> d[i]]] :
               d \in [1..k -> data]} : k \in 0..n}

\* ------------------------------------------ followEnhancedRedirectChain
maxRedirects == 15

\* a URL is <<origin, path>>; the path is "" when the string ends at the host
Origins == {"https://a.io", "https://b.io"}
Paths == {"/", "/x"}
Pages == Origins \X Paths

\* the href of a URL: an empty path is "/"
Href(url) == IF url[2] = "" THEN <<url[1], "/">> ELSE url

\* Location header values: an absolute URL, a path, a string that is no URL
AbsoluteLocation(origin) == <<"absolute", origin, "/">>
PathLocation(path) == <<"path", path>>
BadLocation == <<"bad">>

\* new URL(location, currentUrl).href: <<href>>, or <<>> when it throws
NewURL(location, base) ==
    CASE location[1] = "absolute" -> <<Href(<<location[2], location[3]>>)>>
      [] location[1] = "path" -> <<Href(<<base[1], location[2]>>)>>
      [] OTHER -> <<>>

\* what a fetch can meet: a response with its status and its location header
\* (<<>> when headers.get('location') is null), or a rejection
Answer(status, location) == [rejects |-> FALSE, status |-> status, location |-> location]
FetchRejects == [rejects |-> TRUE, status |-> 0, location |-> <<>>]

PageAnswers ==
    {Answer(200, <<>>), Answer(302, <<>>), Answer(301, <<BadLocation>>), FetchRejects}
    \cup {Answer(301, <<AbsoluteLocation(o)>>) : o \in Origins}
    \cup {Answer(302, <<PathLocation(p)>>) : p \in Paths}

\* the arguments of the model's calls: "https://a.io" and "https://a.io/x"
StartUrls == {<<"https://a.io", "">>, <<"https://a.io", "/x">>}

NoFollowReturn ==
    [chain |-> <<>>, finalUrl |-> <<>>, totalRedirects |-> 0,
     reachedMaxRedirects |-> Undefined, error |-> <<>>]

\* the while condition with one more turn
LoopContinuesInclusive(count) == count <= maxRedirects

\* the while condition
LoopContinues(count) == count < maxRedirects

\* the return after the loop
FollowReturns(c, url, count) ==
    [chain |-> c, finalUrl |-> <<url>>, totalRedirects |-> count,
     reachedMaxRedirects |-> Bool(count >= maxRedirects), error |-> <<>>]

\* the return of the catch block
FollowCatches(c, start, message) ==
    [chain |-> c, finalUrl |-> <<start>>, totalRedirects |-> 0,
     reachedMaxRedirects |-> Undefined, error |-> <<message>>]

\* the entry pushed on chain for a response
RedirectInfo(url, response) ==
    [url |-> url, statusCode |-> response.status, location |-> response.location]

FollowIdle ==
    /\ followPc = "idle"
    /\ startUrl = <<>>
    /\ chain = <<>>
    /\ currentUrl = <<>>
    /\ redirectCount = 0
    /\ requests = 0
    /\ followRet = NoFollowReturn

\* the call up to its first await: the first test of the while condition and
\* the first fetch
followEnhancedRedirectChain(url) ==
    /\ followPc = "idle"
    /\ startUrl' = url
    /\ chain' = <<>>
    /\ currentUrl' = url
    /\ redirectCount' = 0
    /\ IF LoopContinues(0)
       THEN /\ followPc' = "fetching"
            /\ requests' = requests + 1
            /\ UNCHANGED followRet
       ELSE /\ followPc' = "done"
            /\ followRet' = FollowReturns(<<>>, url, 0)
            /\ UNCHANGED requests
    /\ UNCHANGED graph

\* the fetch in flight settles and the call runs to its next fetch or to its
\* return
FetchSettles ==
    /\ followPc = "fetching"
    /\ LET response == graph[Href(currentUrl)]
           pushed == Append(chain, RedirectInfo(currentUrl, response))
           isRedirect == response.status >= 300 /\ response.status < 400
           href == IF response.location = <<>>
                   THEN <<>>
                   ELSE NewURL(response.location[1], Href(currentUrl))
       IN  IF response.rejects
           THEN /\ followPc' = "done"
                /\ followRet' = FollowCatches(chain, startUrl, "Failed to fetch")
                /\ UNCHANGED <<chain, currentUrl, redirectCount, requests>>
           ELSE IF ~isRedirect \/ response.location = <<>>
           THEN /\ followPc' = "done"
                /\ chain' = pushed
                /\ followRet' = FollowReturns(pushed, currentUrl, redirectCount)
                /\ UNCHANGED <<currentUrl, redirectCount, requests>>
           ELSE IF href = <<>>
           THEN /\ followPc' = "done"
                /\ chain' = pushed
                /\ followRet' = FollowCatches(pushed, startUrl, "Invalid URL")
                /\ UNCHANGED <<currentUrl, redirectCount, requests>>
           ELSE /\ chain' = pushed
                /\ currentUrl' = href[1]
                /\ redirectCount' = redirectCount + 1
                /\ IF LoopContinues(redirectCount + 1)
                   THEN /\ followPc' = "fetching"
                        /\ requests' = requests + 1
                        /\ UNCHANGED followRet
                   ELSE /\ followPc' = "done"
                        /\ followRet' = FollowReturns(pushed, href[1], redirectCount + 1)
                        /\ UNCHANGED requests
    /\ UNCHANGED <<graph, startUrl>>

\* --------------------------------------------------- SecureApiEndpoint
\* max of the rate limiter
RateLimitMax == 10

\* the shortest session token isValidSession accepts is one character longer
SessionLength == 10

\* a string of n characters
Chars(n) == [i \in 1..n |-> "s"]

\* req.headers['x-session-token'] || req.cookies?.sessionToken, no cookie
\* parser being installed: undefined, or the string sent
SessionTokens ==
    {Undefined} \cup {<<"chars", Chars(n)>> : n \in {0, 1, SessionLength, SessionLength + 1}}

\* the routes of setupRoutes and a path outside /api/secure/
ChatbotTokenPath == "/api/secure/chatbot-token"
HealthPath == "/api/secure/health"
ApiPaths == {ChatbotTokenPath, HealthPath, "/"}

\* the body of a request as express.json meets it: none, a body that is not
\* declared as JSON, JSON that parses, JSON that does not, JSON above the limit
ApiBodies == {"none", "text", "json", "malformed", "oversized"}

ApiRequests ==
    [method : {"GET", "POST"}, path : ApiPaths, sessionToken : SessionTokens,
     body : ApiBodies]

NoRequest == [method |-> "", path |-> "", sessionToken |-> Undefined, body |-> "none"]

\* a response: its status, the error or status property of its JSON body,
\* the token property (<<>> when there is none) and the middleware and
\* handlers that ran for the request, in order
Response(status, label, token, ran) ==
    [status |-> status, label |-> label, token |-> token, ran |-> ran]

NoResponse == Response(0, "", <<>>, <<>>)

\* isValidSession: sessionToken && sessionToken.length > 10
isValidSession(sessionToken) ==
    /\ sessionToken[1] = "chars"
    /\ Len(sessionToken[2]) > 0
    /\ Len(sessionToken[2]) > SessionLength

\* getUserFromSession
getUserFromSession(sessionToken) == [id |-> "user123", permissions |-> <<"chatbot_access">>]

\* permissions.includes(p)
Includes(array, item) == \E i \in 1..Len(array) : array[i] = item

\* generateShortLivedToken: `temp_token_${userId}_${Date.now()}`, the time
\* left out
generateShortLivedToken(userId) == <<"temp_token_", userId>>

\* express.json({limit: '10mb'}): the status of the error it passes to next,
\* 0 when it calls next()
JsonError(body) ==
    CASE body = "malformed" -> 400
      [] body = "oversized" -> 413
      [] OTHER -> 0

\* !sessionToken
TokenMissing(sessionToken) ==
    sessionToken = Undefined \/ (sessionToken[1] = "chars" /\ Len(sessionToken[2]) = 0)

\* app.use('/api/secure/', apiKeyLimiter)
UnderLimiter(path) == path \in {ChatbotTokenPath, HealthPath}

\* the handler of GET /api/secure/chatbot-token for an authenticated request
ChatbotTokenHandler(user, e, ran) ==
    IF ~Includes(user.permissions, "chatbot_access")
    THEN Response(403, "Insufficient permissions", <<>>, ran)
    ELSE IF "NURMO_API_KEY" \notin e
    THEN Response(500, "Service configuration error", <<>>, ran)
    ELSE Response(200, "Token generated successfully",
                  <<generateShortLivedToken(user.id)>>, ran)

\* the handler of GET /api/secure/health
HealthHandler(user, ran) == Response(200, "healthy", <<>>, ran)

\* the routes, for a request that passed the middleware; no route: 404
Route(r, user, e, ran) ==
    IF r.method = "GET" /\ r.path = ChatbotTokenPath
    THEN ChatbotTokenHandler(user, e, Append(ran, "chatbot-token"))
    ELSE IF r.method = "GET" /\ r.path = HealthPath
    THEN HealthHandler(user, Append(ran, "health"))
    ELSE Response(404, "Not Found", <<>>, ran)

\* the middleware in the order of the app.use calls (helmet, express.json,
\* authenticateSession, apiKeyLimiter) and then the routes; h is the count
\* of the limiter after this request
Handle(r, h, e) ==
    IF JsonError(r.body) # 0
    THEN Response(JsonError(r.body), "body parser", <<>>, <<"helmet", "json">>)
    ELSE IF TokenMissing(r.sessionToken)
    THEN Response(401, "Authentication required", <<>>,
                  <<"helmet", "json", "authenticateSession">>)
    ELSE IF ~isValidSession(r.sessionToken)
    THEN Response(401, "Invalid session", <<>>, <<"helmet", "json", "authenticateSession">>)
    ELSE IF UnderLimiter(r.path)
    THEN IF h > RateLimitMax
         THEN Response(429, "Too many API key requests", <<>>,
                       <<"helmet", "json", "authenticateSession", "apiKeyLimiter">>)
         ELSE Route(r, getUserFromSession(r.sessionToken), e,
                    <<"helmet", "json", "authenticateSession", "apiKeyLimiter">>)
    ELSE Route(r, getUserFromSession(r.sessionToken), e,
               <<"helmet", "json", "authenticateSession">>)

\* the count of the limiter after a request: one more when the request came
\* to the limiter (the count is not followed beyond max + 1)
Counted(r, h) ==
    IF /\ JsonError(r.body) = 0
       /\ isValidSession(r.sessionToken)
       /\ UnderLimiter(r.path)
       /\ h <= RateLimitMax
    THEN h + 1
    ELSE h

\* the server answers a request
Request(r) ==
    /\ req' = r
    /\ hits' = Counted(r, hits)
    /\ res' = Handle(r, Counted(r, hits), apiEnv)
    /\ UNCHANGED apiEnv

\* windowMs passes: the limiter forgets its counts
WindowElapses ==
    /\ hits > 0
    /\ hits' = 0
    /\ UNCHANGED <<apiEnv, req, res>>

ApiIdle ==
    /\ apiEnv = {}
    /\ hits = 0
    /\ req = NoRequest
    /\ res = NoResponse

\* ------------------------------------ IPBlacklistChecker and IPBanTester
\* most checkIP calls awaiting getIPInfo at a time
MaxChecks == 1

Tools == {"IPBlacklistChecker", "IPBanTester"}

\* an entry of the categories table
Category(name, lists) == [name |-> name, lists |-> lists]

\* this.categories of IPBlacklistChecker, in the order of Object.entries
BlacklistCategories ==
    <<Category("spam", <<"spamhaus_drop", "spamhaus_edrop", "stopforumspam",
                         "stopforumspam_30d", "stopforumspam_7d", "stopforumspam_1d">>),
      Category("malware", <<"vxvault", "malc0de", "abuse_zeus", "abuse_spyeye",
                            "abuse_palevo", "ciarmy_malicious">>),
      Category("tor", <<"tor_exits", "tor_exits_30d", "tor_exits_7d", "tor_exits_1d">>),
      Category("proxy", <<"sslproxies", "sslproxies_30d", "sslproxies_7d", "sslproxies_1d",
                          "socks_proxy", "socks_proxy_30d", "socks_proxy_7d",
                          "socks_proxy_1d">>),
      Category("php", <<"php_spammers", "php_harvesters", "php_dictionary",
                        "php_commenters", "php_spammers_30d", "php_harvesters_30d",
                        "php_dictionary_30d", "php_commenters_30d">>),
      Category("firehol", <<"firehol_level1", "firehol_level2", "firehol_level3",
                            "firehol_level4", "firehol_abusers_30d">>),
      Category("gaming", <<"iblocklist_org_steam", "iblocklist_org_riot_games",
                           "iblocklist_org_blizzard", "iblocklist_org_electronic_arts",
                           "iblocklist_org_activision", "iblocklist_org_nintendo">>),
      Category("isp", <<"iblocklist_isp_comcast", "iblocklist_isp_verizon",
                        "iblocklist_isp_att", "iblocklist_isp_charter",
                        "iblocklist_isp_twc", "iblocklist_isp_sprint">>)>>

\* this.categories of IPBanTester
BanCategories ==
    <<Category("gaming", <<"iblocklist_org_steam", "iblocklist_org_riot_games",
                           "iblocklist_org_blizzard", "iblocklist_org_electronic_arts",
                           "iblocklist_org_activision", "iblocklist_org_nintendo",
                           "iblocklist_org_sony_online", "iblocklist_org_ubisoft">>),
      Category("spam", <<"spamhaus_drop", "spamhaus_edrop", "stopforumspam",
                         "stopforumspam_30d", "stopforumspam_7d", "stopforumspam_1d">>),
      Category("security", <<"vxvault", "malc0de", "abuse_zeus", "abuse_spyeye",
                             "abuse_palevo", "ciarmy_malicious", "feodo", "feodo_badips">>),
      Category("proxy", <<"sslproxies", "sslproxies_30d", "sslproxies_7d", "sslproxies_1d",
                          "socks_proxy", "socks_proxy_30d", "socks_proxy_7d",
                          "socks_proxy_1d">>),
      Category("tor", <<"tor_exits", "tor_exits_30d", "tor_exits_7d", "tor_exits_1d">>),
      Category("abuse", <<"firehol_level1", "firehol_level2", "firehol_level3",
                          "firehol_level4", "firehol_abusers_30d", "php_spammers",
                          "php_harvesters", "php_dictionary", "php_commenters">>),
      Category("isp", <<"iblocklist_isp_comcast", "iblocklist_isp_verizon",
                        "iblocklist_isp_att", "iblocklist_isp_charter",
                        "iblocklist_isp_twc", "iblocklist_isp_sprint">>)>>

CategoriesOf(t) == IF t = "IPBlacklistChecker" THEN BlacklistCategories ELSE BanCategories

\* an entry of a blocklist: one address `a.b.c.d`, or a range `a.b.c.d/p`
Single(ip) == <<"ip", ip>>
Cidr(base, prefix) == <<"cidr", base, prefix>>

\* generateSimulatedIPs
generateSimulatedIPs(listName) ==
    CASE listName = "spamhaus_drop" ->
             <<Cidr(<<1, 10, 16, 0>>, 20), Cidr(<<1, 19, 0, 0>>, 16),
               Cidr(<<2, 56, 192, 0>>, 22), Cidr(<<5, 42, 92, 0>>, 24),
               Cidr(<<23, 94, 58, 0>>, 24), Cidr(<<31, 24, 81, 0>>, 24),
               Cidr(<<37, 49, 148, 0>>, 24)>>
      [] listName = "tor_exits" ->
             <<Single(<<2, 56, 10, 36>>), Single(<<2, 58, 56, 35>>),
               Single(<<5, 2, 67, 226>>), Single(<<5, 8, 18, 30>>),
               Single(<<23, 129, 64, 130>>), Single(<<23, 129, 64, 131>>),
               Single(<<23, 129, 64, 132>>)>>
      [] listName = "vxvault" ->
             <<Single(<<1, 2, 3, 4>>), Single(<<5, 6, 7, 8>>), Single(<<9, 10, 11, 12>>),
               Single(<<13, 14, 15, 16>>), Single(<<17, 18, 19, 20>>),
               Single(<<21, 22, 23, 24>>), Single(<<25, 26, 27, 28>>)>>
      [] listName = "stopforumspam_30d" ->
             <<Single(<<192, 168, 1, 1>>), Single(<<10, 0, 0, 1>>),
               Single(<<172, 16, 0, 1>>), Single(<<8, 8, 8, 8>>), Single(<<1, 1, 1, 1>>),
               Single(<<208, 67, 222, 222>>), Single(<<9, 9, 9, 9>>)>>
      [] listName = "sslproxies" ->
             <<Single(<<185, 199, 229, 156>>), Single(<<185, 199, 228, 220>>),
               Single(<<185, 199, 231, 45>>), Single(<<188, 166, 168, 250>>),
               Single(<<159, 89, 49, 172>>), Single(<<159, 203, 61, 169>>)>>
      [] listName = "firehol_level1" ->
             <<Cidr(<<1, 0, 0, 0>>, 8), Cidr(<<2, 0, 0, 0>>, 8), Cidr(<<3, 0, 0, 0>>, 8),
               Cidr(<<4, 0, 0, 0>>, 8), Cidr(<<5, 0, 0, 0>>, 8), Cidr(<<6, 0, 0, 0>>, 8),
               Cidr(<<7, 0, 0, 0>>, 8)>>
      [] OTHER -> <<>>

\* the list names of a categories table
RECURSIVE ListNames(_)
ListNames(categories) ==
    IF categories = <<>>
    THEN {}
    ELSE {Head(categories).lists[i] : i \in 1..Len(Head(categories).lists)}
         \cup ListNames(Tail(categories))

\* loadSimulatedBlocklists: every list of every category is set
loadSimulatedBlocklists(lists, categories) ==
    [l \in DOMAIN lists \cup ListNames(categories) |->
        IF l \in ListNames(categories) THEN generateSimulatedIPs(l) ELSE lists[l]]

\* the address as a 32-bit number
IPToNumber(ip) == ((ip[1] * 256 + ip[2]) * 256 + ip[3]) * 256 + ip[4]

\* BlocklistLoader.isIPInCIDR: the address and the base agree on the prefix
isIPInCIDR(ip, entry) ==
    IPToNumber(ip) \div (2 ^ (32 - entry[3])) = IPToNumber(entry[2]) \div (2 ^ (32 - entry[3]))

\* checkIPInList
checkIPInList(ip, ipList) ==
    \E i \in 1..Len(ipList) :
        IF ipList[i][1] = "cidr"
        THEN isIPInCIDR(ip, ipList[i])
        ELSE Single(ip) = ipList[i]

\* a verdict that is 'warning' up to three lists
VerdictLenient(totalFound) ==
    IF totalFound = 0
    THEN [overallStatus |-> "clean", threatLevel |-> "low"]
    ELSE IF totalFound <= 3
    THEN [overallStatus |-> "warning", threatLevel |-> "medium"]
    ELSE [overallStatus |-> "danger", threatLevel |-> "high"]

\* the overall status and threat level for results.foundInLists.length
Verdict(totalFound) ==
    IF totalFound = 0
    THEN [overallStatus |-> "clean", threatLevel |-> "low"]
    ELSE IF totalFound <= 2
    THEN [overallStatus |-> "warning", threatLevel |-> "medium"]
    ELSE [overallStatus |-> "danger", threatLevel |-> "high"]

\* the lists of a category that are loaded and hold the address, in order
RECURSIVE Matches(_, _, _)
Matches(ip, names, lists) ==
    IF names = <<>>
    THEN <<>>
    ELSE IF Head(names) \in DOMAIN lists /\ checkIPInList(ip, lists[Head(names)])
    THEN <<Head(names)>> \o Matches(ip, Tail(names), lists)
    ELSE Matches(ip, Tail(names), lists)

\* results.foundInLists: the pushes of the two loops, in order
RECURSIVE FoundInLists(_, _, _)
FoundInLists(ip, categories, lists) ==
    IF categories = <<>>
    THEN <<>>
    ELSE Matches(ip, Head(categories).lists, lists)
         \o FoundInLists(ip, Tail(categories), lists)

\* results.categoryResults: found is set when a list of the category matches
CategoryResults(ip, categories, lists) ==
    [c \in 1..Len(categories) |->
        [name |-> categories[c].name,
         found |-> \E i \in 1..Len(categories[c].lists) :
                      /\ categories[c].lists[i] \in DOMAIN lists
                      /\ checkIPInList(ip, lists[categories[c].lists[i]]),
         lists |-> Matches(ip, categories[c].lists, lists)]]

\* analyzeIP up to `await this.getIPInfo(ip)`
analyzeIP(ip, categories, lists) ==
    LET foundInLists == FoundInLists(ip, categories, lists)
        verdict == Verdict(Len(foundInLists))
    IN  [ip |-> <<ip>>,
         overallStatus |-> verdict.overallStatus,
         threatLevel |-> verdict.threatLevel,
         foundInLists |-> foundInLists,
         categoryResults |-> CategoryResults(ip, categories, lists)]

\* clearResults: nothing is displayed
NoResults ==
    [ip |-> <<>>, overallStatus |-> "", threatLevel |-> "", foundInLists |-> <<>>,
     categoryResults |-> <<>>]

\* the address the model looks up, and one that no list of the model holds
ListedIP == <<1, 2, 3, 4>>
UnlistedIP == <<8, 8, 4, 4>>

\* ipInput.value: blank, a text that is no address, an address
BlankInput == <<"blank">>
BadInput == <<"text">>
AddressInput(ip) == <<"address", ip>>
Inputs == {BlankInput, BadInput, AddressInput(ListedIP), AddressInput(UnlistedIP)}

\* BlocklistLoader.isValidIP of the trimmed input
LoaderIsValidIP(input) == input[1] = "address"

\* the lists the loader fetches in the model, and for each the entries that
\* hold ListedIP (a range for spamhaus_drop, the address for the others)
FeedLists == <<"spamhaus_drop", "stopforumspam", "vxvault", "tor_exits", "feodo">>

Listing(listName) ==
    IF listName = "spamhaus_drop"
    THEN <<Cidr(<<9, 9, 0, 0>>, 16), Cidr(<<1, 2, 0, 0>>, 16)>>
    ELSE <<Single(<<9, 9, 9, 9>>), Single(ListedIP)>>

NotListing(listName) ==
    IF listName = "spamhaus_drop"
    THEN <<Cidr(<<9, 9, 0, 0>>, 16), Cidr(<<1, 3, 0, 0>>, 16)>>
    ELSE <<Single(<<9, 9, 9, 9>>)>>

\* the feeds: any of the lists may hold ListedIP
Feeds ==
    {[l \in {FeedLists[i] : i \in 1..Len(FeedLists)} |->
         IF l \in holding THEN Listing(l) ELSE NotListing(l)] :
     holding \in SUBSET {FeedLists[i] : i \in 1..Len(FeedLists)}}

NoBlocklists == [l \in {} |-> <<>>]

\* the constructor: IPBlacklistChecker.init registers the listeners and
\* starts loadBlocklists; IPBanTester.init awaits detectUserIP first and
\* registers the listeners after loadBlocklists
Constructed(t, f) ==
    /\ tool = t
    /\ feed = f
    /\ loadPc = IF t = "IPBlacklistChecker" THEN "loading" ELSE "detecting"
    /\ blocklists = NoBlocklists
    /\ listening = (t = "IPBlacklistChecker")
    /\ disabled = FALSE
    /\ messageShown = IF t = "IPBlacklistChecker" THEN "Loading blocklists..." ELSE ""
    /\ inFlight = <<>>
    /\ resultsShown = NoResults

\* IPBanTester.init: detectUserIP has settled, loadBlocklists starts
DetectionSettles ==
    /\ loadPc = "detecting"
    /\ loadPc' = "loading"
    /\ messageShown' = "Loading ban lists..."
    /\ UNCHANGED <<tool, feed, blocklists, listening, disabled, inFlight, resultsShown>>

\* the loader calls the completion callback and loadEssentialBlocklists
\* resolves; IPBanTester.init goes on to register the listeners
LoadCompletes ==
    /\ loadPc = "loading"
    /\ loadPc' = "ready"
    /\ blocklists' = feed
    /\ listening' = TRUE
    /\ messageShown' = "loaded successfully!"
    /\ UNCHANGED <<tool, feed, disabled, inFlight, resultsShown>>

\* loadEssentialBlocklists rejects: the catch of loadBlocklists
LoadFails ==
    /\ loadPc = "loading"
    /\ loadPc' = "ready"
    /\ blocklists' = loadSimulatedBlocklists(blocklists, CategoriesOf(tool))
    /\ listening' = TRUE
    /\ messageShown' = "Error loading blocklists. Using simulated data."
    /\ UNCHANGED <<tool, feed, disabled, inFlight, resultsShown>>

Triggers == {"click", "Enter", "Ctrl+Enter"}

\* checkIP up to `await this.getIPInfo(ip)`, started by a click on checkBtn,
\* Enter in ipInput (both impossible while they are disabled) or Ctrl+Enter
checkIP(trigger, input) ==
    /\ listening
    /\ trigger \in {"click", "Enter"} => ~disabled
    /\ Len(inFlight) < MaxChecks
    /\ IF input = BlankInput
       THEN /\ messageShown' = "Please enter an IP address"
            /\ UNCHANGED <<disabled, inFlight, resultsShown>>
       ELSE IF ~LoaderIsValidIP(input)
       THEN /\ messageShown' = "Please enter a valid IP address"
            /\ UNCHANGED <<disabled, inFlight, resultsShown>>
       ELSE /\ disabled' = TRUE
            /\ resultsShown' = NoResults
            /\ inFlight' = Append(inFlight, analyzeIP(input[2], CategoriesOf(tool), blocklists))
            /\ UNCHANGED messageShown
    /\ UNCHANGED <<tool, feed, loadPc, blocklists, listening>>

\* getIPInfo has settled for the i-th check in flight: displayResults and
\* setLoadingState(false)
CheckCompletes(i) ==
    /\ i \in 1..Len(inFlight)
    /\ resultsShown' = inFlight[i]
    /\ inFlight' = SubSeq(inFlight, 1, i - 1) \o SubSeq(inFlight, i + 1, Len(inFlight))
    /\ disabled' = FALSE
    /\ UNCHANGED <<tool, feed, loadPc, blocklists, listening, messageShown>>

\* no page with a checker is open
CheckerIdle ==
    /\ tool = ""
    /\ feed = NoBlocklists
    /\ loadPc = "ready"
    /\ blocklists = NoBlocklists
    /\ listening = FALSE
    /\ disabled = FALSE
    /\ messageShown = ""
    /\ inFlight = <<>>
    /\ resultsShown = NoResults

\* every program but the two analysis services is as constructed
\* ------------------------------------------------------- the service worker
\* src/sw.js: the install, activate and fetch handlers over the origin's
\* CacheStorage. One run of a handler is one step; what the network does to
\* its fetch and what the storage does to its cache.put are inputs of the step.

\* a pathname as its segments and the extension of the last one:
\* "/index.html" is Pathname(<<"index">>, "html"), "/" is Pathname(<<>>, "")
Pathname(segs, ext) == [segs |-> segs, ext |-> ext]

URL(hostname, pathname) == [hostname |-> hostname, pathname |-> pathname]

\* self.location.hostname
LocationHostname == "ainsiders.example"

\* a cache name as its prefix up to the first hyphen and the rest
CACHE_NAME == <<"ainsiders-", "assets-v2.0.0">>
STATIC_CACHE == <<"ainsiders-", "static-v2.0.0">>
DYNAMIC_CACHE == <<"ainsiders-", "dynamic-v2.0.0">>
API_CACHE == <<"ainsiders-", "api-v2.0.0">>

\* caches left by an earlier version of the worker and by another script
EarlierCache == <<"ainsiders-", "static-v1.0.0">>
ForeignCache == <<"news-", "feeds">>

\* the caches that may exist before the worker is installed
EarlierCaches == {API_CACHE, CACHE_NAME, EarlierCache, ForeignCache}

STATIC_ASSETS ==
    {Pathname(<<>>, ""),
     Pathname(<<"index">>, "html"),
     Pathname(<<"about">>, "html"),
     Pathname(<<"contact">>, "html"),
     Pathname(<<"apps">>, "html"),
     Pathname(<<"news-enhanced">>, "html"),
     Pathname(<<"brain-styles">>, "css"),
     Pathname(<<"brain-script">>, "js"),
     Pathname(<<"shared-loader">>, "js"),
     Pathname(<<"mobile-nav">>, "js"),
     Pathname(<<"sphere-loader">>, "js"),
     Pathname(<<"matrix-loader">>, "js"),
     Pathname(<<"matrix-rain">>, "js"),
     Pathname(<<"news-feeds-enhanced">>, "js"),
     Pathname(<<"news-script">>, "js"),
     Pathname(<<"chatbot">>, "js"),
     Pathname(<<"simple-chatbot">>, "js"),
     Pathname(<<"ainsiders-logo">>, "png"),
     Pathname(<<"logo">>, "svg"),
     Pathname(<<"blake-zimmerman">>, "jpg"),
     Pathname(<<"browser-cache-manager">>, "js")}

FontSheet == URL("fonts.googleapis.com", Pathname(<<"css2">>, ""))
FontFile == URL("fonts.gstatic.com", Pathname(<<"s", "inter", "v12", "UcCO3Fwr">>, "woff2"))

EXTERNAL_RESOURCES == <<FontSheet, FontFile, FontFile>>

\* '/offline.html'
OfflinePage == URL(LocationHostname, Pathname(<<"offline">>, "html"))

\* the URLs cache.addAll(STATIC_ASSETS) requests: the paths on the worker's origin
StaticUrls == {URL(LocationHostname, p) : p \in STATIC_ASSETS}

ExternalUrls == {EXTERNAL_RESOURCES[i] : i \in 1..Len(EXTERNAL_RESOURCES)}

\* response.ok
Ok(status) == status >= 200 /\ status <= 299

\* the response cache.addAll stored for a URL; addAll stores OK responses only
Precached(url) == [url |-> url, status |-> 200, via |-> "install"]

\* what fetch did: it rejected, or resolved with a response of some status
FetchRejected == [resolves |-> FALSE, status |-> 0]
FetchResolved(status) == [resolves |-> TRUE, status |-> status]
FetchOutcomes == {FetchRejected, FetchResolved(200), FetchResolved(404)}

\* what cache.put may do to the response of a fetch: it resolves or it
\* rejects; it is called for an OK response only
PutOutcomes(net) == IF net.resolves /\ Ok(net.status) THEN BOOLEAN ELSE {FALSE}

\* the response a resolved fetch of the URL gives
NetworkResponse(url, net) == [url |-> url, status |-> net.status, via |-> "fetch"]

\* no response
NoStored == [url |-> URL("", Pathname(<<>>, "")), status |-> 0, via |-> ""]

\* caches.open(name): the cache is created when it does not exist
Open(c, name) == IF name \in DOMAIN c THEN c ELSE c @@ (name :> <<>>)

\* cache.match(request) of the cache of that name finds an entry
Has(c, name, url) == name \in DOMAIN c /\ url \in DOMAIN c[name]

\* cache.put(request, response) on the (open) cache of that name
Put(c, name, url, response) ==
    [c EXCEPT ![name] =
        [u \in DOMAIN c[name] \cup {url} |-> IF u = url THEN response ELSE c[name][u]]]

\* cache.addAll(urls) when every request succeeded
addAll(c, name, urls) ==
    [c EXCEPT ![name] =
        [u \in DOMAIN c[name] \cup urls |-> IF u \in urls THEN Precached(u) ELSE c[name][u]]]

\* caches.match(url): the entry of some cache that has one, or undefined
cachesMatch(c, url) ==
    LET holders == {n \in DOMAIN c : url \in DOMAIN c[n]}
    IN  IF holders = {} THEN NoStored ELSE c[CHOOSE n \in holders : TRUE][url]

\* the install handler: both caches are opened, each addAll stores all of its
\* responses or none, and the catch turns a rejection into a log line
Install(staticAdded, externalAdded) ==
    /\ registration = "parsed"
    /\ LET opened == Open(Open(caches, STATIC_CACHE), DYNAMIC_CACHE)
           static == IF staticAdded THEN addAll(opened, STATIC_CACHE, StaticUrls) ELSE opened
       IN  caches' = IF externalAdded THEN addAll(static, DYNAMIC_CACHE, ExternalUrls) ELSE static
    /\ installLog' = IF staticAdded /\ externalAdded THEN "ok" ELSE "failed"
    /\ registration' = "installed"
    /\ UNCHANGED <<deleted, fetchEvent, responded>>

\* cacheName.startsWith(prefix)
StartsWith(cacheName, prefix) == Len(cacheName) >= 1 /\ cacheName[1] = prefix

\* the activate handler without the test of the prefix
DeletedWhateverPrefix(cacheName) ==
    /\ cacheName # STATIC_CACHE
    /\ cacheName # DYNAMIC_CACHE
    /\ cacheName # API_CACHE

\* the activate handler deletes the cache
DeletedOnActivate(cacheName) ==
    /\ cacheName # STATIC_CACHE
    /\ cacheName # DYNAMIC_CACHE
    /\ cacheName # API_CACHE
    /\ StartsWith(cacheName, "ainsiders-")

\* the activate handler
Activate ==
    /\ registration = "installed"
    /\ caches' = [n \in {m \in DOMAIN caches : ~DeletedOnActivate(m)} |-> caches[n]]
    /\ deleted' = {m \in DOMAIN caches : DeletedOnActivate(m)}
    /\ registration' = "activated"
    /\ UNCHANGED <<installLog, fetchEvent, responded>>

ImageExtensions == {"png", "jpg", "jpeg", "gif", "svg", "webp", "ico"}

getCacheStrategy(request) ==
    LET pathname == request.url.pathname
    IN  IF \/ pathname \in STATIC_ASSETS
           \/ pathname.ext = "css"
           \/ pathname.ext = "js"
           \/ pathname.ext \in ImageExtensions
        THEN "cache-first"
        ELSE IF Len(pathname.segs) >= 2 /\ pathname.segs[1] = "api"
        THEN "network-first"
        ELSE IF pathname.ext = "html" \/ pathname = Pathname(<<>>, "")
        THEN "network-first"
        ELSE IF request.url.hostname # LocationHostname
        THEN "cache-first"
        ELSE "network-first"

\* a strategy returned a response
Returns(response, from, c) == [threw |-> FALSE, response |-> response, from |-> from, caches |-> c]
\* a strategy threw
Throws(c) == [threw |-> TRUE, response |-> NoStored, from |-> "", caches |-> c]

cacheFirst(c, request, net, putOk) ==
    LET opened == Open(c, DYNAMIC_CACHE)
        networkResponse == NetworkResponse(request.url, net)
    IN  IF Has(opened, DYNAMIC_CACHE, request.url)
        THEN Returns(opened[DYNAMIC_CACHE][request.url], "cache", opened)
        ELSE IF ~net.resolves THEN Throws(opened)
        ELSE IF ~Ok(net.status) THEN Returns(networkResponse, "network", opened)
        ELSE IF putOk
        THEN Returns(networkResponse, "network",
                     Put(opened, DYNAMIC_CACHE, request.url, networkResponse))
        ELSE Throws(opened)

\* the catch block of networkFirst
networkFirstCatch(c, request) ==
    LET opened == Open(c, DYNAMIC_CACHE)
    IN  IF Has(opened, DYNAMIC_CACHE, request.url)
        THEN Returns(opened[DYNAMIC_CACHE][request.url], "cache", opened)
        ELSE Throws(opened)

\* the try block holds the fetch, caches.open and cache.put
networkFirst(c, request, net, putOk) ==
    LET networkResponse == NetworkResponse(request.url, net)
    IN  IF ~net.resolves THEN networkFirstCatch(c, request)
        ELSE IF ~Ok(net.status) THEN Returns(networkResponse, "network", c)
        ELSE IF putOk
        THEN Returns(networkResponse, "network",
                     Put(Open(c, DYNAMIC_CACHE), DYNAMIC_CACHE, request.url, networkResponse))
        ELSE networkFirstCatch(Open(c, DYNAMIC_CACHE), request)

staticFirst(c, request, net, putOk) ==
    LET opened == Open(c, STATIC_CACHE)
    IN  IF Has(opened, STATIC_CACHE, request.url)
        THEN Returns(opened[STATIC_CACHE][request.url], "cache", opened)
        ELSE cacheFirst(opened, request, net, putOk)

networkOnly(c, request, net) ==
    IF net.resolves THEN Returns(NetworkResponse(request.url, net), "network", c) ELSE Throws(c)

cacheOnly(c, request) == networkFirstCatch(c, request)

\* what handleRequest gives respondWith, and the caches it leaves
handleRequest(c, request, strategy, net, putOk) ==
    LET r == CASE strategy = "cache-first" -> cacheFirst(c, request, net, putOk)
               [] strategy = "network-first" -> networkFirst(c, request, net, putOk)
               [] strategy = "static-first" -> staticFirst(c, request, net, putOk)
               [] strategy = "network-only" -> networkOnly(c, request, net)
               [] strategy = "cache-only" -> cacheOnly(c, request)
               [] OTHER -> networkFirst(c, request, net, putOk)
        offline == cachesMatch(r.caches, OfflinePage)
    IN  IF ~r.threw
        THEN [kind |-> "response", from |-> r.from, response |-> r.response, caches |-> r.caches]
        ELSE IF request.mode = "navigate"
        THEN [kind |-> IF offline = NoStored THEN "undefined" ELSE "response",
              from |-> IF offline = NoStored THEN "" ELSE "offline",
              response |-> offline, caches |-> r.caches]
        ELSE [kind |-> "error", from |-> "", response |-> NoStored, caches |-> r.caches]

\* the requests of the pages: navigations and subresources of the origin, an
\* API call, a font of another host, and a form post
RequestUrls ==
    {URL(LocationHostname, Pathname(<<"index">>, "html")),
     URL(LocationHostname, Pathname(<<"brain-styles">>, "css")),
     OfflinePage,
     URL(LocationHostname, Pathname(<<"api", "cache">>, "")),
     FontFile}

RequestModes == {"navigate", "cors"}

SwRequest(method, url, mode) == [method |-> method, url |-> url, mode |-> mode]

SwRequests ==
    {SwRequest("GET", u, m) : u \in RequestUrls, m \in RequestModes}
        \cup {SwRequest("POST", URL(LocationHostname, Pathname(<<"api", "cache">>, "")), "cors")}

NoFetchEvent ==
    [request |-> SwRequest("", URL("", Pathname(<<>>, "")), ""), net |-> FetchRejected,
     putOk |-> FALSE]

NotResponded == [kind |-> "", from |-> "", response |-> NoStored]

\* the fetch handler; a request that is not a GET is left to the browser
Fetch(request, net, putOk) ==
    /\ registration = "activated"
    /\ fetchEvent' = [request |-> request, net |-> net, putOk |-> putOk]
    /\ IF request.method # "GET"
       THEN /\ responded' = [kind |-> "default", from |-> "", response |-> NoStored]
            /\ UNCHANGED caches
       ELSE LET h == handleRequest(caches, request, getCacheStrategy(request), net, putOk)
            IN  /\ responded' = [kind |-> h.kind, from |-> h.from, response |-> h.response]
                /\ caches' = h.caches
    /\ UNCHANGED <<registration, installLog, deleted>>

\* no worker is registered
ServiceWorkerIdle ==
    /\ registration = "parsed"
    /\ installLog = ""
    /\ caches = <<>>
    /\ deleted = {}
    /\ fetchEvent = NoFetchEvent
    /\ responded = NotResponded

ToolsIdle ==
    /\ graph = [p \in Pages |-> FetchRejects]
    /\ FollowIdle
    /\ ApiIdle
    /\ CheckerIdle
    /\ ServiceWorkerIdle

\* most records scored on their own
MaxScored == 5

InitService ==
    /\ ToolsIdle
    /\ cache = [k \in {} |-> 0]
    /\ requestHistory = <<>>
    /\ now = 0
    /\ calls = [s \in Slots |-> IdleCall]
    /\ ret = NoReturn
    /\ labelled = {}
    /\ urlCache = [k \in {} |-> 0]
    /\ urlCall = NoUrlCall
    /\ urlRet = NoUrlReturn
    /\ started = 0
    /\ ticks = 0

Init ==
    /\ InitService
    /\ env \in Environments
    /\ pureIn = <<>>
    /\ pureCut = 0
    /\ pureOut = NoOutput

InitAggregation ==
    /\ InitService
    /\ env = {}
    /\ pureIn \in ProviderMaps(AggregationData, MaxProviders)
    /\ pureCut \in 0..Len(pureIn)
    /\ pureOut = NoOutput

InitScoring ==
    /\ InitService
    /\ env = {}
    /\ pureIn \in ProviderMaps(ScoringData, MaxScored)
    /\ pureCut \in 0..Len(pureIn)
    /\ pureOut = NoOutput

Next ==
    \/ \E ip \in IPKeys, options \in Options : Call(ip, options) /\ UNCHANGED pureVars
    \/ \E url \in URLKeys, forceRefresh \in BOOLEAN :
          CallURL(url, forceRefresh) /\ UNCHANGED pureVars
    \/ \E redirects \in {0, 1} : AnalysisCompletes(redirects) /\ UNCHANGED pureVars
    \/ \E s \in Slots : \E i \in 1..Len(calls[s].promises) :
          AdapterSettles(s, i) /\ UNCHANGED pureVars
    \/ \E s \in Slots : Resume(s) /\ UNCHANGED pureVars
    \/ Tick /\ UNCHANGED pureVars

Spec == Init /\ [][Next]_vars

\* aggregation and scoring of a providers object, from every object of at most
\* MaxProviders records over AggregationData
SpecAggregation == InitAggregation /\ [][Derive]_vars

\* the same steps from every object of at most MaxScored records over ScoringData
SpecScoring == InitScoring /\ [][Derive]_vars

\* --------------------------------------------------------- getAnalytics
\* the statistics getAnalytics returns (a read of this.cache and
\* this.requestHistory; 0 / 0 is NaN)
getAnalytics ==
    [cacheSize |-> Cardinality(DOMAIN cache),
     totalRequests |-> Len(requestHistory),
     successRate |->
         IF Len(requestHistory) = 0
         THEN NaN
         ELSE Rat(Cardinality({i \in 1..Len(requestHistory) : requestHistory[i].success}),
                  Len(requestHistory))]

\* ============================================================ properties
\* the call that completed last went to the providers and returned `results`
FreshEnvelope == ret.kind = "envelope" /\ ~ret.hit

\* C1: for every valid key and every combination of the options,
\* getComprehensiveIPInfo returns an envelope and does not throw; the only
\* failure that escapes the call is the failure of key validation.
C1_ValidKeyNeverThrows ==
    ret.kind = "throw" => ~isValidIP(ret.ip) /\ ret.message = InvalidIPMessage

\* C2: when none of the dispatched adapters succeeds, the call still returns
\* an envelope, in which confidence.overall is 0 and every aggregated
\* location and network field is null.
C2_ZeroSuccessEnvelope ==
    FreshEnvelope /\ ret.envelope[1].providers = <<>> =>
        LET e == ret.envelope[1]
        IN  /\ "overall" \in DOMAIN e.confidence
            /\ e.confidence.overall = 0
            /\ \A f \in DOMAIN e.aggregated.location : e.aggregated.location[f] = Null
            /\ \A f \in DOMAIN e.aggregated.network : e.aggregated.network[f] = Null

\* the value of a string of decimal digits
DigitValue(c) ==
    CASE c = "0" -> 0 [] c = "1" -> 1 [] c = "2" -> 2 [] c = "3" -> 3 [] c = "4" -> 4
      [] c = "5" -> 5 [] c = "6" -> 6 [] c = "7" -> 7 [] c = "8" -> 8 [] c = "9" -> 9

RECURSIVE DecimalValue(_)
DecimalValue(s) ==
    IF s = <<>> THEN 0
    ELSE 10 * DecimalValue(SubSeq(s, 1, Len(s) - 1)) + DigitValue(s[Len(s)])

\* the pieces of s between the occurrences of sep
Pieces(s, sep) ==
    LET cuts == {0, Len(s) + 1} \cup {i \in 1..Len(s) : s[i] = sep}
    IN  {SubSeq(s, i + 1, j - 1) : <<i, j>> \in
            {p \in cuts \X cuts : p[1] < p[2] /\ \A k \in cuts : ~(p[1] < k /\ k < p[2])}}

Separators(s, sep) == Cardinality({i \in 1..Len(s) : s[i] = sep})

\* a dotted quad whose octets are one to three digits with a value in 0..255
DottedQuad(key) ==
    /\ Separators(key, ".") = 3
    /\ \A o \in Pieces(key, ".") :
          /\ Len(o) \in 1..3
          /\ \A i \in 1..Len(o) : o[i] \in Digits
          /\ DecimalValue(o) <= 255

\* a full IPv6 literal: eight groups of one to four hexadecimal digits
FullIPv6(key) ==
    /\ Separators(key, ":") = 7
    /\ \A g \in Pieces(key, ":") :
          Len(g) \in 1..4 /\ \A i \in 1..Len(g) : g[i] \in HexDigits

WellFormedKey(key) == DottedQuad(key) \/ FullIPv6(key)

\* the keys of the model that are not well formed
MalformedKeys == {key \in IPKeys : ~WellFormedKey(key)}

\* the keys of the model that the platform's URL parser rejects
UnparseableURLs == {UrlNotAUrl, UrlNoScheme, UrlNoHost}

\* C3: a call with a key that fails format validation (no dotted quad with
\* octets 0-255, no full 8-group IPv6 literal; for the URL analyzer, no
\* parseable URL) fails with the invalid-format error before any adapter or
\* network call is made, and leaves the cache and the request history unchanged.
C3_InvalidKeyFailsFirst ==
    [][started' # started =>
          /\ \A ip \in MalformedKeys, options \in Options :
                Call(ip, options) =>
                    /\ ret'.kind = "throw"
                    /\ ret'.ip = ip
                    /\ ret'.message = InvalidIPMessage
                    /\ ret'.invoked = <<>>
                    /\ ret'.fetched = {}
                    /\ calls' = calls
                    /\ cache' = cache
                    /\ requestHistory' = requestHistory
          /\ \A url \in UnparseableURLs, forceRefresh \in BOOLEAN :
                CallURL(url, forceRefresh) =>
                    /\ urlRet'.kind = "throw"
                    /\ urlRet'.url = url
                    /\ urlRet'.message = InvalidURLMessage
                    /\ ~urlRet'.fetched
                    /\ urlCall' = urlCall
                    /\ urlCache' = urlCache]_vars

\* an invalid key was refused after an earlier call had filled the cache and
\* the history
C3_InvalidKeyRefused ==
    /\ ret.kind = "throw"
    /\ ~WellFormedKey(ret.ip)
    /\ ret.message = InvalidIPMessage
    /\ DOMAIN cache # {}
    /\ requestHistory # <<>>

\* C4: in a call in which a dispatched adapter rejects, the providers map of
\* the returned envelope still holds the record of every dispatched adapter
\* that succeeded.
C4_PartialFailureIsolation ==
    FreshEnvelope /\ (\E i \in 1..Len(ret.promises) :
                         ret.promises[i].result[1].status = "rejected") =>
        \A j \in 1..Len(ret.promises) :
            ret.promises[j].result[1].status = "fulfilled" =>
                \E k \in 1..Len(ret.envelope[1].providers) :
                    /\ ret.envelope[1].providers[k].provider = ret.promises[j].adapter
                    /\ ret.envelope[1].providers[k].data = ret.promises[j].result[1].data

\* a call returned in which one adapter rejected and two others succeeded
C4_OneFailedOthersKept ==
    /\ FreshEnvelope
    /\ \E i \in 1..Len(ret.promises) : ret.promises[i].result[1].status = "rejected"
    /\ Cardinality({j \in 1..Len(ret.promises) :
                       ret.promises[j].result[1].status = "fulfilled"}) >= 2
    /\ Len(ret.envelope[1].providers) >= 2

\* C5: in every returned envelope the providers map holds exactly the
\* adapters that succeeded and the errors list exactly one entry per adapter
\* that failed, each entry identifying the failed provider (an entry's
\* provider field always stands for the same provider); no adapter is in
\* both and no dispatched adapter is in neither.
C5_ProvidersErrorsPartition ==
    /\ FreshEnvelope =>
          LET e == ret.envelope[1]
              Adapters(status) ==
                  {ret.promises[i].adapter : i \in
                      {j \in 1..Len(ret.promises) : ret.promises[j].result[1].status = status}}
          IN  /\ {e.providers[k].provider : k \in 1..Len(e.providers)} = Adapters("fulfilled")
              /\ Len(e.providers) = Cardinality(Adapters("fulfilled"))
              /\ Len(e.errors) = Cardinality(Adapters("rejected"))
              /\ Adapters("fulfilled") \cap Adapters("rejected") = {}
    /\ \A p, q \in labelled : p[1] = q[1] => p[2] = q[2]

\* the values of field f that the records of a providers object supply
\* (neither undefined nor null), in provider order
RECURSIVE Supplied(_, _)
Supplied(providers, f) ==
    IF providers = <<>>
    THEN <<>>
    ELSE LET v == Get(Head(providers).data, f)
         IN  (IF v \in {Undefined, Null} THEN <<>> ELSE <<v>>) \o Supplied(Tail(providers), f)

Occurrences(array, item) == Cardinality({i \in 1..Len(array) : array[i] = item})

\* the value of a non-empty list with the highest occurrence count that is
\* seen first
FirstSeenMajority(array) ==
    array[CHOOSE i \in 1..Len(array) :
            /\ \A j \in 1..Len(array) :
                  Occurrences(array, array[j]) <= Occurrences(array, array[i])
            /\ \A k \in 1..(i - 1) :
                  Occurrences(array, array[k]) < Occurrences(array, array[i])]

\* C6: for a non-empty list of categorical values collected in provider
\* order, the aggregated value is one with the highest occurrence count, and
\* among several with the highest count the one seen first (["A","B"] gives "A").
C6_MajorityFirstSeen ==
    pureOut.done /\ Supplied(pureIn, "city") # <<>> =>
        pureOut.aggregated.location.city = FirstSeenMajority(Supplied(pureIn, "city"))

\* C7: for successful-provider counts k1 < k2 (k1 = 0 included), overall(k2) >=
\* overall(k1), and for every count confidence.overall is a number in [0,1]
\* (0..100 hundredths).
C7_ConfidenceMonotoneBounded ==
    pureOut.done =>
        /\ "overall" \in DOMAIN pureOut.confidence
        /\ pureOut.confidence.overall \in 0..100
        /\ "overall" \in DOMAIN pureOut.prefixConfidence
        /\ pureOut.prefixConfidence.overall \in 0..100
        /\ pureOut.prefixConfidence.overall <= pureOut.confidence.overall

\* C8: for every number n >= 0 of entries of the providers map, overall is
\* min(1.0, 0.25 n), location and network equal overall, and security is
\* 0.8 overall (in hundredths); every successful adapter counts, the
\* placeholder threat-intelligence adapter included.
C8_ConfidenceFormula ==
    pureOut.done =>
        LET n == Len(pureIn)
            overall == IF 25 * n > 100 THEN 100 ELSE 25 * n
        IN  pureOut.confidence =
                [f \in {"overall", "location", "network", "security"} |->
                    IF f = "security" THEN (80 * overall) \div 100 ELSE overall]

\* the arithmetic mean of a non-empty list of whole numbers
RECURSIVE Total(_)
Total(array) == IF array = <<>> THEN 0 ELSE Head(array)[2] + Total(Tail(array))

Mean(array) == Rat(Total(array), Len(array))

\* C9: the aggregated latitude is the arithmetic mean of all the non-null
\* latitudes the successful providers supplied, a supplied 0 included, and is
\* null only when no provider supplied one.
C9_MeanOfAllSupplied ==
    pureOut.done =>
        pureOut.aggregated.location.latitude =
            IF Supplied(pureIn, "latitude") = <<>>
            THEN Null
            ELSE Mean(Supplied(pureIn, "latitude"))

\* C10: two calls for a key within the cache lifetime, forceRefresh unset,
\* return the identical envelope and the adapters are invoked for only one of
\* them: the call that goes to the providers returns the envelope it stores,
\* and a call that finds an entry younger than cacheExpiry returns that
\* entry's envelope, invokes no adapter and issues no request.
C10_CacheIdempotence ==
    [][/\ started' # started =>
             \A ip \in DOMAIN cache :
                 now - cache[ip].timestamp < cacheExpiry =>
                     \A options \in {o \in Options : ~o.forceRefresh} :
                         Call(ip, options) =>
                             /\ ret'.kind = "envelope"
                             /\ ret'.ip = ip
                             /\ ret'.envelope = <<cache[ip].data>>
                             /\ ret'.invoked = <<>>
                             /\ ret'.fetched = {}
                             /\ calls' = calls
                             /\ cache' = cache
       /\ \A s \in Slots :
             Resume(s) =>
                 /\ ret'.kind = "envelope"
                 /\ ret'.ip \in DOMAIN cache'
                 /\ ret'.envelope = <<cache'[ret'.ip].data>>]_vars

\* a call was answered from an entry stored earlier on the clock
C10_AnsweredFromCache ==
    /\ ret.kind = "envelope"
    /\ ret.hit
    /\ ret.ip \in DOMAIN cache
    /\ ret.at > cache[ret.ip].timestamp
    /\ ret.envelope = <<cache[ret.ip].data>>

\* the adapters the options of a call select, in the order of dispatch
SelectedAdapters(options) ==
    (IF options.includeBasic THEN <<"ipapi", "ipinfo">> ELSE <<>>)
    \o (IF options.includeDetailed THEN <<"ipgeolocation", "maxmind">> ELSE <<>>)
    \o (IF options.includeThreatIntel THEN <<"shodan", "threat_intel">> ELSE <<>>)

\* the adapters of a list of promises
AdaptersOf(promises) == [i \in 1..Len(promises) |-> promises[i].adapter]

\* C11: once cacheExpiry has elapsed since the envelope of a key was stored,
\* the next call for the key, forceRefresh unset, goes to the providers with
\* every adapter its options select, and its completion stores a new entry.
C11_ExpiredEntryRefetched ==
    [][/\ started' # started =>
             \A ip \in DOMAIN cache :
                 now - cache[ip].timestamp >= cacheExpiry =>
                     \A options \in {o \in Options : ~o.forceRefresh} :
                         Call(ip, options) =>
                             /\ calls'[started'].pc = "awaiting"
                             /\ calls'[started'].ip = ip
                             /\ AdaptersOf(calls'[started'].promises) = SelectedAdapters(options)
       /\ \A s \in Slots :
             Resume(s) =>
                 cache'[calls[s].ip] = [timestamp |-> now, data |-> ret'.envelope[1]]]_vars

\* ------------------------------------------------- the cache reads alone
\* getFromCache of both classes, applied to caches that hold an entry of a
\* chosen age or none.

\* entry ages around a lifetime
CacheAges(ttl) == {0, 1, ttl - 1, ttl, ttl + 1, 2 * ttl}

\* the analysis object analyzeURL stores for `https://a.io`
StoredAnalysis(t) ==
    [originalUrl |-> UrlHttps, timestamp |-> t, finalUrl |-> UrlHttps, totalRedirects |-> 0]

InitCache ==
    /\ ToolsIdle
    /\ now = 2 * cacheExpiry
    /\ \E age \in CacheAges(cacheExpiry), present \in BOOLEAN :
          cache = IF present
                  THEN cacheResults([k \in {} |-> 0], now - age, KeyIPv4,
                                    BuildResults(KeyIPv4, now - age, <<>>))
                  ELSE [k \in {} |-> 0]
    /\ \E age \in CacheAges(urlCacheExpiry), present \in BOOLEAN :
          urlCache = IF present
                     THEN urlCacheResults([k \in {} |-> 0], now - age, UrlHttps,
                                          StoredAnalysis(now - age))
                     ELSE [k \in {} |-> 0]
    /\ pureIn \in {[ip |-> KeyIPv4, url |-> UrlHttps], [ip |-> KeyIPv6, url |-> RedirectTarget]}
    /\ pureCut = 0
    /\ pureOut = NoOutput
    /\ env = {}
    /\ requestHistory = <<>>
    /\ calls = [s \in Slots |-> IdleCall]
    /\ ret = NoReturn
    /\ labelled = {}
    /\ urlCall = NoUrlCall
    /\ urlRet = NoUrlReturn
    /\ started = 0
    /\ ticks = 0

\* this.getFromCache(key) of both classes
Lookup ==
    /\ ~pureOut.done
    /\ pureOut' = [done |-> TRUE,
                   ip |-> getFromCache(cache, now, pureIn.ip),
                   url |-> urlGetFromCache(urlCache, now, pureIn.url)]
    /\ UNCHANGED <<pureIn, pureCut>>
    /\ UNCHANGED <<env, now, started, ticks>>
    /\ UNCHANGED toolVars
    /\ UNCHANGED ipVars
    /\ UNCHANGED urlVars

SpecCache == InitCache /\ [][Lookup]_vars

\* C12: getFromCache(key), in the IP service (lifetime 24 h) and in the URL
\* analyzer (lifetime 1 h), returns the stored value if and only if an entry
\* for key exists and now - storedAt is less than the lifetime; with no entry,
\* or at an age equal to or greater than the lifetime, it returns absent.
C12_CacheGet ==
    pureOut.done =>
        /\ pureOut.ip =
              IF pureIn.ip \in DOMAIN cache
                 /\ now - cache[pureIn.ip].timestamp < 24 * 3600000
              THEN <<cache[pureIn.ip].data>>
              ELSE <<>>
        /\ pureOut.url =
              IF pureIn.url \in DOMAIN urlCache
                 /\ now - urlCache[pureIn.url].timestamp < 3600000
              THEN <<urlCache[pureIn.url].data>>
              ELSE <<>>

\* both caches were read for a key whose entry is exactly one lifetime old,
\* and both reads returned absent
C12_ReadAtLifetime ==
    /\ pureOut.done
    /\ pureIn.ip \in DOMAIN cache
    /\ now - cache[pureIn.ip].timestamp = 24 * 3600000
    /\ pureOut.ip = <<>>
    /\ pureIn.url \in DOMAIN urlCache
    /\ now - urlCache[pureIn.url].timestamp = 3600000
    /\ pureOut.url = <<>>

\* C13: a cache read never changes the cache; an expired entry stays in the
\* map until a write for its own key replaces it: no step removes a key, an
\* entry changes only when a call for its own key completes and stores, and
\* the part of a call that reads the cache leaves it as it is.
C13_LazyEviction ==
    [][/\ DOMAIN cache \subseteq DOMAIN cache'
       /\ \A k \in DOMAIN cache :
             cache'[k] # cache[k] =>
                 \E s \in Slots :
                     calls[s].pc = "awaiting" /\ calls[s].ip = k /\ calls'[s].pc = "idle"
       /\ started' # started => cache' = cache /\ urlCache' = urlCache
       /\ DOMAIN urlCache \subseteq DOMAIN urlCache'
       /\ \A u \in DOMAIN urlCache :
             urlCache'[u] # urlCache[u] =>
                 urlCall.pc = "analyzing" /\ urlCall.url = u /\ urlCall'.pc = "idle"]_vars

\* a call read an expired entry as absent and went to the providers, and the
\* entry is still in the map
C13_ExpiredEntryKept ==
    \E s \in Slots :
        /\ calls[s].pc = "awaiting"
        /\ calls[s].ip \in DOMAIN cache
        /\ calls[s].timestamp - cache[calls[s].ip].timestamp >= cacheExpiry

\* the keys of the model that are well formed
WellFormedKeys == {key \in IPKeys : WellFormedKey(key)}

\* C14: in every call that misses the cache, every adapter the options select
\* is started before the call awaits, and the call completes (aggregation,
\* scoring, cache store, return) only when every dispatched adapter has
\* fulfilled or rejected, with the record of every fulfilled adapter kept.
C14_AllSettledJoin ==
    [][/\ started' # started =>
             \A ip \in WellFormedKeys, options \in Options :
                 /\ \/ ip \notin DOMAIN cache
                    \/ now - cache[ip].timestamp >= cacheExpiry
                    \/ options.forceRefresh
                 /\ Call(ip, options)
                 => /\ calls'[started'].pc = "awaiting"
                    /\ AdaptersOf(calls'[started'].promises) = SelectedAdapters(options)
                    /\ ret' = ret
                    /\ cache' = cache
       /\ \A s \in Slots :
             calls[s].pc = "awaiting" /\ calls'[s].pc = "idle" =>
                 /\ \A i \in 1..Len(calls[s].promises) :
                       /\ calls[s].promises[i].result # <<>>
                       /\ calls[s].promises[i].result[1].status \in {"fulfilled", "rejected"}
                       /\ calls[s].promises[i].result[1].status = "fulfilled" =>
                             \E k \in 1..Len(ret'.envelope[1].providers) :
                                 ret'.envelope[1].providers[k] =
                                     [provider |-> calls[s].promises[i].adapter,
                                      data |-> calls[s].promises[i].result[1].data]
                 /\ ret'.kind = "envelope"
                 /\ cache'[calls[s].ip].data = ret'.envelope[1]]_vars

\* C15: the call fails in exactly two cases: the key fails validation, or no
\* adapter could be attempted (the call went past the cache and its options
\* select none); in every other case it returns an envelope.
C15_FailsInTwoCases ==
    ret.kind # "none" =>
        (ret.kind = "throw" <=>
            \/ ret.ip \notin WellFormedKeys
            \/ ~ret.hit /\ ret.invoked = <<>>)

\* the variable of process.env that holds the credential of an adapter
\* whose provider has requiresToken: true
CredentialOf(adapter) ==
    CASE adapter = "ipinfo" -> "IPINFO_TOKEN"
      [] adapter = "ipgeolocation" -> "IPGEOLOCATION_TOKEN"
      [] adapter = "shodan" -> "SHODAN_TOKEN"

\* the adapters a call invoked whose credential is not set
Uncredentialed(invoked) ==
    {a \in {"ipinfo", "ipgeolocation", "shodan"} :
        (\E i \in 1..Len(invoked) : invoked[i] = a) /\ CredentialOf(a) \notin env}

\* C16: an adapter whose provider requires a credential fails fast when the
\* credential is not set: it issues no network request, the call still
\* returns its envelope, the failure is in errors for that adapter only, and
\* the other adapters are unaffected (those that fulfilled are in providers).
C16_MissingCredentialFailsFast ==
    ret.kind # "none" /\ Uncredentialed(ret.invoked) # {} =>
        /\ Uncredentialed(ret.invoked) \cap ret.fetched = {}
        /\ ret.kind = "envelope"
        /\ \A i \in 1..Len(ret.promises) :
              IF ret.promises[i].adapter \in Uncredentialed(ret.invoked)
              THEN ret.promises[i].result[1].status = "rejected"
              ELSE ret.promises[i].result[1].status = "fulfilled" =>
                      \E k \in 1..Len(ret.envelope[1].providers) :
                          ret.envelope[1].providers[k].provider = ret.promises[i].adapter
        /\ Len(ret.envelope[1].errors) =
              Cardinality({i \in 1..Len(ret.promises) :
                              ret.promises[i].result[1].status = "rejected"})

\* ------------------------------------- threats and services on their own
\* provider records that differ in their flags, ports and services
BannerService ==
    [port |-> Num(80), protocol |-> Str("tcp"), service |-> Str("nginx"),
     version |-> Undefined, banner |-> Str("HTTP/1.1 200 OK")]

DerivationData ==
    {[isProxy |-> Bool(TRUE), isHosting |-> Bool(TRUE), ports |-> Arr(<<Num(80), Num(80)>>)],
     [vulnerabilities |-> Arr(<<Str("CVE-2020-0001")>>), services |-> Arr(<<BannerService>>),
      ports |-> Arr(<<Num(80), Num(443)>>)],
     [isProxy |-> Bool(FALSE), vulnerabilities |-> Arr(<<>>), ports |-> Arr(<<>>)],
     fetchThreatIntelligence.data}

InitDerivation ==
    /\ InitService
    /\ env = {}
    /\ pureIn \in ProviderMaps(DerivationData, MaxProviders)
    /\ pureCut = 0
    /\ pureOut = NoOutput

\* the same steps from every object of at most MaxProviders records over
\* DerivationData
SpecDerivation == InitDerivation /\ [][Derive]_vars

ArrayLength(v) == IF v[1] = "arr" THEN Len(v[2]) ELSE 0

\* the sum of F over the records of a providers object
SumOver(providers, F(_)) ==
    LET RECURSIVE UpTo(_)
        UpTo(i) == IF i = 0 THEN 0 ELSE F(providers[i].data) + UpTo(i - 1)
    IN  UpTo(Len(providers))

ServiceElements(data) == ArrayLength(Get(data, "services")) + ArrayLength(Get(data, "ports"))

Flag(b) == IF b THEN 1 ELSE 0

ProxyFlag(data) == Flag(Get(data, "isProxy") = Bool(TRUE))
HostingFlag(data) == Flag(Get(data, "isHosting") = Bool(TRUE))
VulnerabilityFlag(data) == Flag(ArrayLength(Get(data, "vulnerabilities")) > 0)

\* how often the ports list of a record reports port 80
Reports80(data) ==
    LET ports == Get(data, "ports")
    IN  IF ports[1] = "arr"
        THEN Cardinality({i \in 1..Len(ports[2]) : ports[2][i] = Num(80)})
        ELSE 0

ThreatsOfType(threats, type) == Cardinality({i \in 1..Len(threats) : threats[i].type = type})

\* C17: services has exactly one entry per element of every record's
\* services list plus one per element of every record's ports list (a port
\* reported twice appears twice), and threats has exactly one entry per
\* (record, flag) pair among isProxy, isHosting and non-empty vulnerabilities.
C17_FlattenWithoutDedup ==
    pureOut.done =>
        /\ Len(pureOut.services) = SumOver(pureIn, ServiceElements)
        /\ Cardinality({i \in 1..Len(pureOut.services) :
                           /\ "source" \in DOMAIN pureOut.services[i]
                           /\ pureOut.services[i].port = Num(80)})
              = SumOver(pureIn, Reports80)
        /\ ThreatsOfType(pureOut.threats, "proxy") = SumOver(pureIn, ProxyFlag)
        /\ ThreatsOfType(pureOut.threats, "hosting") = SumOver(pureIn, HostingFlag)
        /\ ThreatsOfType(pureOut.threats, "vulnerabilities") = SumOver(pureIn, VulnerabilityFlag)
        /\ Len(pureOut.threats) =
              SumOver(pureIn, ProxyFlag) + SumOver(pureIn, HostingFlag)
              + SumOver(pureIn, VulnerabilityFlag)

\* port 80, reported twice by one record and once by another, is in services
\* three times, and one record contributed two threats
C17_PortListedThrice ==
    /\ pureOut.done
    /\ Cardinality({i \in 1..Len(pureOut.services) :
                       /\ "source" \in DOMAIN pureOut.services[i]
                       /\ pureOut.services[i].port = Num(80)}) = 3
    /\ Len(pureIn) = 2
    /\ Len(pureOut.threats) = 3

\* C18: an envelope is not changed after it has been returned: when a later
\* call for the same key (forceRefresh, or after expiry) completes, it stores
\* the envelope it built from its own promises alone under a new storedAt,
\* replacing the entry as a whole; the other entries and the earlier records
\* of the history stay as they were.
C18_ReplacedWholesale ==
    [][\A s \in Slots :
          /\ calls[s].pc = "awaiting"
          /\ calls'[s].pc = "idle"
          /\ calls[s].ip \in DOMAIN cache
          => LET ip == calls[s].ip
                 new == ret'.envelope[1]
                 fulfilled == {calls[s].promises[i].adapter : i \in
                                  {j \in 1..Len(calls[s].promises) :
                                      calls[s].promises[j].result[1].status = "fulfilled"}}
             IN  /\ cache'[ip] = [timestamp |-> now, data |-> new]
                 /\ new.ip = ip
                 /\ new.timestamp = calls[s].timestamp
                 /\ {new.providers[k].provider : k \in 1..Len(new.providers)} = fulfilled
                 /\ Len(new.errors) = Len(calls[s].promises) - Cardinality(fulfilled)
                 /\ \A k \in DOMAIN cache \ {ip} : cache'[k] = cache[k]
                 /\ Tail(requestHistory') = requestHistory]_vars

\* a forced refresh within the lifetime replaced an entry by an envelope with
\* other providers
C18_EntryRefreshed ==
    /\ FreshEnvelope
    /\ Len(requestHistory) = 2
    /\ requestHistory[1].ip = ret.ip
    /\ requestHistory[2].ip = ret.ip
    /\ requestHistory[2].providers # requestHistory[1].providers
    /\ requestHistory[2].timestamp < ret.at
    /\ ret.at - requestHistory[2].timestamp < cacheExpiry
    /\ cache[ret.ip] = [timestamp |-> ret.at, data |-> ret.envelope[1]]

\* ------------------------------------------------------ overlapping calls
\* Callers that do not wait for one another: a call is made while others are
\* in flight.  One key, no forceRefresh, with and without the threat adapters.
OverlapOptions ==
    {o \in Options : o.includeBasic /\ ~o.includeDetailed /\ ~o.forceRefresh}

ConcurrentCall(ip, options) ==
    /\ started < MaxCalls
    /\ started' = started + 1
    /\ getComprehensiveIPInfo(started + 1, ip, options)
    /\ UNCHANGED urlVars

InitOverlap ==
    /\ InitService
    /\ env \in {{}, {"SHODAN_TOKEN"}}
    /\ pureIn = <<>>
    /\ pureCut = 0
    /\ pureOut = NoOutput

NextOverlap ==
    \/ \E options \in OverlapOptions : ConcurrentCall(KeyIPv4, options) /\ UNCHANGED pureVars
    \/ \E s \in Slots : \E i \in 1..Len(calls[s].promises) :
          AdapterSettles(s, i) /\ UNCHANGED pureVars
    \/ \E s \in Slots : Resume(s) /\ UNCHANGED pureVars
    \/ Tick /\ UNCHANGED pureVars

SpecOverlap == InitOverlap /\ [][NextOverlap]_vars

QueriesCompleted == started - Cardinality({s \in Slots : calls[s].pc = "awaiting"})

OnlyIPQueries == urlRet.kind = "none" /\ urlCall.pc = "idle"

\* C20: after any sequence of calls (hits, misses, failed calls) getAnalytics
\* reports cacheSize equal to the number of keys stored, a total equal to the
\* number of queries made, and a successRate equal to the fraction of the
\* queries that succeeded, a number in [0,1] also before the first query.
C20_AnalyticsCounts ==
    /\ getAnalytics.cacheSize = Cardinality(DOMAIN cache)
    /\ IsNum(getAnalytics.successRate)
    /\ 0 <= getAnalytics.successRate[2]
    /\ getAnalytics.successRate[2] <= getAnalytics.successRate[3]
    /\ OnlyIPQueries => getAnalytics.totalRequests = QueriesCompleted
    /\ OnlyIPQueries /\ QueriesCompleted = 1 =>
          getAnalytics.successRate = IF ret.kind = "envelope" THEN Num(1) ELSE Num(0)


\* every adapter the call dispatched has rejected (and it dispatched one)
AllRejected(promises) ==
    /\ promises # <<>>
    /\ \A i \in 1..Len(promises) :
          promises[i].result # <<>> /\ promises[i].result[1].status = "rejected"

\* an envelope with no provider and an error for each adapter dispatched
EmptyEnvelope(envelope) == envelope.providers = <<>> /\ envelope.errors # <<>>

\* C22: the envelope of a call whose dispatched adapters all failed is stored
\* like any other, and a following call for the key within cacheExpiry,
\* forceRefresh unset, returns that envelope and invokes no adapter.
C22_FailureCached ==
    [][/\ \A s \in Slots :
             /\ calls[s].pc = "awaiting"
             /\ calls'[s].pc = "idle"
             /\ AllRejected(calls[s].promises)
             => /\ ret'.kind = "envelope"
                /\ EmptyEnvelope(ret'.envelope[1])
                /\ Len(ret'.envelope[1].errors) = Len(calls[s].promises)
                /\ calls[s].ip \in DOMAIN cache'
                /\ cache'[calls[s].ip] = [timestamp |-> now, data |-> ret'.envelope[1]]
       /\ started' # started =>
             \A ip \in DOMAIN cache :
                 /\ now - cache[ip].timestamp < cacheExpiry
                 /\ EmptyEnvelope(cache[ip].data)
                 => \A options \in {o \in Options : ~o.forceRefresh} :
                        Call(ip, options) =>
                            /\ ret'.kind = "envelope"
                            /\ ret'.envelope = <<cache[ip].data>>
                            /\ ret'.invoked = <<>>
                            /\ ret'.fetched = {}
                            /\ calls' = calls
                            /\ cache' = cache]_vars

\* a call was answered, later on the clock, with the stored envelope of a call
\* whose adapters had all failed
C22_EmptyEnvelopeServed ==
    /\ ret.kind = "envelope"
    /\ ret.hit
    /\ EmptyEnvelope(ret.envelope[1])
    /\ ret.at > cache[ret.ip].timestamp
    /\ cache[ret.ip].data = ret.envelope[1]
    /\ requestHistory # <<>>
    /\ requestHistory[1].providers = <<>>


\* --------------------------------------------- calls with two selections
\* A caller that asks for the basic providers first and for the threat
\* providers in every later call, each call awaited before the next.
SelectionKeys == {KeyIPv4, KeyIPv6}

FirstSelection ==
    {o \in Options : o.includeBasic /\ ~o.includeDetailed /\ ~o.includeThreatIntel}

LaterSelection == {o \in Options : ~o.includeDetailed /\ o.includeThreatIntel}

InitSelection ==
    /\ InitService
    /\ env \in {{}, {"SHODAN_TOKEN"}}
    /\ pureIn = <<>>
    /\ pureCut = 0
    /\ pureOut = NoOutput

NextSelection ==
    \/ /\ started = 0
       /\ \E ip \in SelectionKeys, options \in FirstSelection : Call(ip, options)
       /\ UNCHANGED pureVars
    \/ /\ started > 0
       /\ \E ip \in SelectionKeys, options \in LaterSelection : Call(ip, options)
       /\ UNCHANGED pureVars
    \/ \E s \in Slots : \E i \in 1..Len(calls[s].promises) :
          AdapterSettles(s, i) /\ UNCHANGED pureVars
    \/ \E s \in Slots : Resume(s) /\ UNCHANGED pureVars
    \/ Tick /\ UNCHANGED pureVars

SpecSelection == InitSelection /\ [][NextSelection]_vars

\* the providers of an envelope
ProvidersIn(envelope) ==
    {envelope.providers[k].provider : k \in 1..Len(envelope.providers)}

\* C23: the cache is keyed by the IP alone.  A call for a key that has an
\* entry younger than cacheExpiry, forceRefresh unset, returns the envelope
\* of the entry unchanged whatever providers its own options select, invokes
\* no adapter and leaves the cache as it is.
C23_KeyedByIPAlone ==
    [][started' # started =>
          \A ip \in DOMAIN cache :
              now - cache[ip].timestamp < cacheExpiry =>
                  \A options \in {o \in LaterSelection : ~o.forceRefresh} :
                      Call(ip, options) =>
                          /\ ret'.kind = "envelope"
                          /\ ret'.hit
                          /\ ret'.envelope = <<cache[ip].data>>
                          /\ ret'.invoked = <<>>
                          /\ calls' = calls
                          /\ cache' = cache]_vars

\* the second call of the run, which selected the threat providers, returned
\* the envelope that the first call built from the basic providers alone
C23_OtherSelectionServed ==
    /\ started = 2
    /\ ret.kind = "envelope"
    /\ ret.hit
    /\ ProvidersIn(ret.envelope[1]) # {}
    /\ ProvidersIn(ret.envelope[1]) \subseteq {"ipapi", "ipinfo"}
    /\ Len(ret.envelope[1].providers) + Len(ret.envelope[1].errors) = 2
    /\ cache[ret.ip].data = ret.envelope[1]


\* ------------------------------------ the redirect chain follower alone
\* One call of followEnhancedRedirectChain on every web of Pages.
analysisVars ==
    <<cache, requestHistory, env, now, calls, ret, labelled, urlCache, urlCall, urlRet,
      started, ticks, pureIn, pureCut, pureOut>>

AnalysisIdle ==
    /\ cache = [k \in {} |-> 0]
    /\ requestHistory = <<>>
    /\ env = {}
    /\ now = 0
    /\ calls = [s \in Slots |-> IdleCall]
    /\ ret = NoReturn
    /\ labelled = {}
    /\ urlCache = [k \in {} |-> 0]
    /\ urlCall = NoUrlCall
    /\ urlRet = NoUrlReturn
    /\ started = 0
    /\ ticks = 0
    /\ pureIn = <<>>
    /\ pureCut = 0
    /\ pureOut = NoOutput

InitRedirect ==
    /\ AnalysisIdle
    /\ graph \in [Pages -> PageAnswers]
    /\ FollowIdle
    /\ ApiIdle
    /\ CheckerIdle
    /\ ServiceWorkerIdle

NextRedirect ==
    \/ /\ \E url \in StartUrls : followEnhancedRedirectChain(url)
       /\ UNCHANGED <<analysisVars, apiVars, checkerVars, swVars>>
    \/ FetchSettles /\ UNCHANGED <<analysisVars, apiVars, checkerVars, swVars>>

SpecRedirect == InitRedirect /\ [][NextRedirect]_vars


\* the same under the assumption that every fetch settles
SpecRedirectFair == InitRedirect /\ [][NextRedirect]_vars /\ WF_redirectVars(FetchSettles)

\* C25: followEnhancedRedirectChain terminates on every web, a cyclic one
\* included: it issues at most maxRedirects requests, the chain it returns
\* has at most maxRedirects entries, totalRedirects is at most maxRedirects,
\* and reachedMaxRedirects is true exactly when totalRedirects is
\* maxRedirects.
C25_RedirectsBounded ==
    /\ [](/\ requests <= maxRedirects
          /\ Len(chain) <= maxRedirects
          /\ followPc = "done" =>
                /\ Len(followRet.chain) <= maxRedirects
                /\ followRet.totalRedirects <= maxRedirects
                /\ followRet.reachedMaxRedirects = Bool(TRUE)
                      <=> followRet.totalRedirects = maxRedirects)
    /\ (followPc = "fetching" ~> followPc = "done")

\* a call on two pages that redirect to each other has returned after
\* maxRedirects requests
C25_CycleCutOff ==
    /\ followPc = "done"
    /\ graph[<<"https://a.io", "/">>] = Answer(301, <<AbsoluteLocation("https://b.io")>>)
    /\ graph[<<"https://b.io", "/">>] = Answer(301, <<AbsoluteLocation("https://a.io")>>)
    /\ startUrl = <<"https://a.io", "">>
    /\ requests = maxRedirects
    /\ Len(followRet.chain) = maxRedirects
    /\ followRet.totalRedirects = maxRedirects
    /\ followRet.reachedMaxRedirects = Bool(TRUE)

\* the entries of a chain that record a redirect which was followed: a 3xx
\* status with a location that resolves to a URL
RedirectHops(c) ==
    {i \in 1..Len(c) :
        /\ c[i].statusCode >= 300
        /\ c[i].statusCode < 400
        /\ c[i].location # <<>>
        /\ NewURL(c[i].location[1], Href(c[i].url)) # <<>>}

\* the URL the last redirect of a chain leads to, the start when it has none
LastHopReached(start, c) ==
    IF RedirectHops(c) = {}
    THEN start
    ELSE LET last == CHOOSE i \in RedirectHops(c) : \A j \in RedirectHops(c) : j <= i
         IN  NewURL(c[last].location[1], Href(c[last].url))[1]

\* C26: whatever the outcome of followEnhancedRedirectChain, a request that
\* fails part-way included, totalRedirects is the number of redirect hops
\* recorded in chain and finalUrl is the URL of the last hop reached.
C26_ResultConsistent ==
    followPc = "done" =>
        /\ followRet.totalRedirects = Cardinality(RedirectHops(followRet.chain))
        /\ followRet.finalUrl = <<LastHopReached(startUrl, followRet.chain)>>


\* ------------------------------------------------ the secure API endpoint
\* One server and one client, any request after any other.
InitApi ==
    /\ AnalysisIdle
    /\ graph = [p \in Pages |-> FetchRejects]
    /\ FollowIdle
    /\ apiEnv \in {{}, {"NURMO_API_KEY"}}
    /\ hits = 0
    /\ req = NoRequest
    /\ res = NoResponse
    /\ CheckerIdle
    /\ ServiceWorkerIdle

NextApi ==
    \/ \E r \in ApiRequests : Request(r) /\ UNCHANGED <<analysisVars, redirectVars, checkerVars, swVars>>
    \/ WindowElapses /\ UNCHANGED <<analysisVars, redirectVars, checkerVars, swVars>>

SpecApi == InitApi /\ [][NextApi]_vars

\* the request sent a session token that isValidSession accepts
Authenticated(r) == r.sessionToken[1] = "chars" /\ Len(r.sessionToken[2]) > SessionLength

\* C21: every request, whatever its route, whose session token is missing or
\* has 10 characters or fewer is answered 401, and neither the rate limiter
\* nor a route handler runs for it; a chatbot token is returned only to a
\* request that passed authentication and whose user has chatbot_access.
C21_AuthenticationFirst ==
    /\ req # NoRequest /\ ~Authenticated(req) =>
          /\ res.status = 401
          /\ \A i \in 1..Len(res.ran) :
                res.ran[i] \notin {"apiKeyLimiter", "chatbot-token", "health"}
    /\ res.token # <<>> =>
          /\ Authenticated(req)
          /\ Includes(getUserFromSession(req.sessionToken).permissions, "chatbot_access")
          /\ Includes(res.ran, "authenticateSession")


\* -------------------------------------------------- the blocklist checkers
\* A page that constructs one of the two classes, a loader that fetches one
\* of Feeds, and a user who types an input and triggers checks at any time.
InitChecker ==
    /\ AnalysisIdle
    /\ graph = [p \in Pages |-> FetchRejects]
    /\ FollowIdle
    /\ ApiIdle
    /\ \E t \in Tools, f \in Feeds : Constructed(t, f)
    /\ ServiceWorkerIdle

NextChecker ==
    \/ DetectionSettles /\ UNCHANGED <<analysisVars, redirectVars, apiVars, swVars>>
    \/ LoadCompletes /\ UNCHANGED <<analysisVars, redirectVars, apiVars, swVars>>
    \/ LoadFails /\ UNCHANGED <<analysisVars, redirectVars, apiVars, swVars>>
    \/ /\ \E trigger \in Triggers, input \in Inputs : checkIP(trigger, input)
       /\ UNCHANGED <<analysisVars, redirectVars, apiVars, swVars>>
    \/ /\ \E i \in 1..Len(inFlight) : CheckCompletes(i)
       /\ UNCHANGED <<analysisVars, redirectVars, apiVars, swVars>>

SpecChecker == InitChecker /\ [][NextChecker]_vars

\* the lists of the feed that hold an address, by exact match or by a range
\* that contains it
HeldBy(ip, lists) ==
    {l \in DOMAIN lists :
        \E i \in 1..Len(lists[l]) :
            \/ lists[l][i] = <<"ip", ip>>
            \/ /\ lists[l][i][1] = "cidr"
               /\ LET size == 2 ^ (32 - lists[l][i][3])
                      first == IPToNumber(lists[l][i][2]) - (IPToNumber(lists[l][i][2]) % size)
                  IN  first <= IPToNumber(ip) /\ IPToNumber(ip) < first + size}

\* C24: in both tools, however the loading of the blocklists and the checks
\* of the user interleave, an address held by one of the blocklists being
\* loaded (a list the tool's categories name) is never reported 'clean'.
C24_NeverCleanWhileLoading ==
    /\ resultsShown.ip # <<>>
    /\ HeldBy(resultsShown.ip[1], feed) \cap ListNames(CategoriesOf(tool)) # {}
    => resultsShown.overallStatus # "clean"


\* the lists of the category results, one after the other
RECURSIVE Concatenation(_)
Concatenation(categoryResults) ==
    IF categoryResults = <<>>
    THEN <<>>
    ELSE Head(categoryResults).lists \o Concatenation(Tail(categoryResults))

InitSw ==
    /\ AnalysisIdle
    /\ graph = [p \in Pages |-> FetchRejects]
    /\ FollowIdle
    /\ ApiIdle
    /\ CheckerIdle
    /\ registration = "parsed"
    /\ installLog = ""
    /\ \E names \in SUBSET EarlierCaches : caches = [n \in names |-> <<>>]
    /\ deleted = {}
    /\ fetchEvent = NoFetchEvent
    /\ responded = NotResponded

NextSw ==
    \/ /\ \E staticAdded \in BOOLEAN, externalAdded \in BOOLEAN :
              Install(staticAdded, externalAdded)
       /\ UNCHANGED <<analysisVars, redirectVars, apiVars, checkerVars>>
    \/ Activate /\ UNCHANGED <<analysisVars, redirectVars, apiVars, checkerVars>>
    \/ /\ \E request \in SwRequests, net \in FetchOutcomes :
              \E putOk \in PutOutcomes(net) : Fetch(request, net, putOk)
       /\ UNCHANGED <<analysisVars, redirectVars, apiVars, checkerVars>>

SpecSw == InitSw /\ [][NextSw]_vars


\* the fetch handler got a GET for a pre-cached asset whose fetch rejected
PrecachedAssetOffline ==
    /\ installLog = "ok"
    /\ fetchEvent.request.method = "GET"
    /\ fetchEvent.request.url \in StaticUrls
    /\ ~fetchEvent.net.resolves

\* C28: once install has completed successfully, a GET for an asset of
\* STATIC_ASSETS whose fetch fails for want of a network is answered with
\* the response that install stored for it.
C28_PrecachedServedOffline ==
    PrecachedAssetOffline =>
        /\ responded.kind = "response"
        /\ responded.from = "cache"
        /\ responded.response = Precached(fetchEvent.request.url)



\* the caches that hold the worker's current version
CurrentCaches == {STATIC_CACHE, DYNAMIC_CACHE, API_CACHE}

\* the caches of an earlier version among the given names
OldCaches(names) == {n \in names : n[1] = "ainsiders-" /\ n \notin CurrentCaches}

\* C29: when the activate handler completes, the caches are those it found
\* less exactly the ones named 'ainsiders-...' that are not the current static,
\* dynamic or API cache; every other cache is kept, with its entries.
C29_ActivationDeletesOldOnly ==
    [][(registration = "installed" /\ registration' = "activated") =>
          /\ DOMAIN caches' = DOMAIN caches \ OldCaches(DOMAIN caches)
          /\ \A n \in DOMAIN caches' : caches'[n] = caches[n]]_vars

\* activation deleted the two caches of earlier versions and kept the
\* current ones and the cache of another script
C29_OldDeletedOthersKept ==
    /\ registration = "activated"
    /\ deleted = {CACHE_NAME, EarlierCache}
    /\ {STATIC_CACHE, DYNAMIC_CACHE, API_CACHE, ForeignCache} = DOMAIN caches
    /\ DOMAIN caches[STATIC_CACHE] = StaticUrls


\* the entry of the dynamic cache for a URL, NoStored when it has none
DynamicEntry(c, url) == IF Has(c, DYNAMIC_CACHE, url) THEN c[DYNAMIC_CACHE][url] ELSE NoStored

\* the step handles a GET that getCacheStrategy gives to networkFirst
NetworkFirstHandled ==
    /\ registration = "activated"
    /\ <<fetchEvent, responded, caches>>' # <<fetchEvent, responded, caches>>
    /\ fetchEvent'.request.method = "GET"
    /\ getCacheStrategy(fetchEvent'.request) = "network-first"

\* what the claim says the page gets, and the entry the dynamic cache then has
NetworkFirstAnswer(c, e) ==
    LET url == e.request.url
        fetched == NetworkResponse(url, e.net)
        offline == cachesMatch(c, OfflinePage)
    IN  IF e.net.resolves
        THEN [kind |-> "response", from |-> "network", response |-> fetched,
              entry |-> IF Ok(e.net.status) THEN fetched ELSE DynamicEntry(c, url)]
        ELSE IF Has(c, DYNAMIC_CACHE, url)
        THEN [kind |-> "response", from |-> "cache", response |-> c[DYNAMIC_CACHE][url],
              entry |-> DynamicEntry(c, url)]
        ELSE IF e.request.mode = "navigate"
        THEN [kind |-> IF offline = NoStored THEN "undefined" ELSE "response",
              from |-> IF offline = NoStored THEN "" ELSE "offline",
              response |-> offline, entry |-> NoStored]
        ELSE [kind |-> "error", from |-> "", response |-> NoStored, entry |-> NoStored]

\* C30: networkFirst answers with the network's response whenever the fetch
\* resolves, and stores it in the dynamic cache when and only when it is OK;
\* only when the fetch rejects is the cached copy the answer, and without a
\* copy the request fails, a navigation getting the lookup of /offline.html.
C30_NetworkFirst ==
    [][NetworkFirstHandled =>
          LET answer == NetworkFirstAnswer(caches, fetchEvent')
          IN  /\ responded' = [kind |-> answer.kind, from |-> answer.from,
                               response |-> answer.response]
              /\ DynamicEntry(caches', fetchEvent'.request.url) = answer.entry]_vars


====
